---- MODULE Spec2Model ----
(***************************************************************************)
(* Model of the RAG chat-bot backend: the tokenized chunker                *)
(* (utils/chunking_utils.py), the vector index adapter                     *)
(* (services/vector_service.py), the retrieval ranker                      *)
(* (services/retrieval_service.py) and the groundedness validators         *)
(* (services/validation_service.py, utils/validation.py).                  *)
(*                                                                         *)
(* A Python str is modelled as a sequence of one-character strings.        *)
(***************************************************************************)
EXTENDS Integers, Sequences, FiniteSets, TLC

\* ------------------------------------------------------------------------
\* Bounds of the model
\* ------------------------------------------------------------------------

\* longest input text handed to the chunker
MaxTextLen == 6

\* largest max_tokens handed to the chunker
MaxMaxTokens == 3

\* largest overlap_tokens handed to the chunker
MaxOverlap == 2

\* ------------------------------------------------------------------------
\* Python string helpers
\* ------------------------------------------------------------------------

\* the characters of the chunker's input texts: a letter, whitespace and a
\* sentence terminator
Alphabet == {"a", " ", "."}

\* str.isspace() on one character
IsSpace(c) == c \in {" ", "\n", "\t"}

\* the characters re's [.!?] matches
IsTerminator(c) == c \in {".", "!", "?"}

IsLetter(c) == ~IsSpace(c) /\ ~IsTerminator(c)

Min(a, b) == IF a < b THEN a ELSE b

Max(a, b) == IF a > b THEN a ELSE b

\* Python's s[i:j] with 0-based, end-exclusive, non-negative bounds: the
\* slice is clamped to the sequence
Slice(s, i, j) == SubSeq(s, i + 1, Min(j, Len(s)))

\* length of the longest prefix of s whose characters all satisfy the class
\* cls ("space", "term" or "letter")
InClass(c, cls) ==
  CASE cls = "space" -> IsSpace(c)
    [] cls = "term" -> IsTerminator(c)
    [] OTHER -> IsLetter(c)

RECURSIVE RunLen(_, _)
RunLen(s, cls) ==
  IF s = <<>> \/ ~InClass(s[1], cls) THEN 0
  ELSE 1 + RunLen(Tail(s), cls)

ClassOf(c) == IF IsSpace(c) THEN "space" ELSE IF IsTerminator(c) THEN "term" ELSE "letter"

\* str.lstrip(), str.rstrip(), str.strip()
LStrip(s) == SubSeq(s, RunLen(s, "space") + 1, Len(s))

RECURSIVE RStrip(_)
RStrip(s) ==
  IF s = <<>> \/ ~IsSpace(s[Len(s)]) THEN s
  ELSE RStrip(SubSeq(s, 1, Len(s) - 1))

Strip(s) == RStrip(LStrip(s))

\* re.sub(r'\s+', ' ', text): every run of whitespace becomes one space
RECURSIVE CollapseSpaces(_)
CollapseSpaces(s) ==
  IF s = <<>> THEN <<>>
  ELSE IF IsSpace(s[1])
       THEN <<" ">> \o CollapseSpaces(SubSeq(s, RunLen(s, "space") + 1, Len(s)))
       ELSE <<s[1]>> \o CollapseSpaces(Tail(s))

clean_text(t) == Strip(CollapseSpaces(t))

\* ------------------------------------------------------------------------
\* The tokenizer (tiktoken cl100k_base)
\* ------------------------------------------------------------------------

\* Length of the first token of the non-empty text s.  The encoding's
\* pre-tokenisation pattern is followed, each piece counting as one token:
\* a run of letters with at most one leading space, a run of punctuation with
\* at most one leading space, and a run of whitespace, which leaves its last
\* space to the word that follows it.
FirstTokenLen(s) ==
  LET w == RunLen(s, "space")
      rest == SubSeq(s, w + 1, Len(s))
  IN  IF w = 0 THEN RunLen(s, ClassOf(s[1]))
      ELSE IF w = Len(s) THEN w
      ELSE IF w >= 2 THEN w - 1
      ELSE 1 + RunLen(rest, ClassOf(rest[1]))

\* tokenizer.encode(text): the sequence of tokens, each token the string it
\* stands for
RECURSIVE Encode(_)
Encode(s) ==
  IF s = <<>> THEN <<>>
  ELSE LET n == FirstTokenLen(s)
       IN  <<SubSeq(s, 1, n)>> \o Encode(SubSeq(s, n + 1, Len(s)))

\* tokenizer.decode(tokens): the concatenation of the tokens' strings
RECURSIVE Decode(_)
Decode(toks) ==
  IF toks = <<>> THEN <<>> ELSE Head(toks) \o Decode(Tail(toks))

\* ------------------------------------------------------------------------
\* chunk_text_by_tokens
\* ------------------------------------------------------------------------

\* end_idx of the window that starts at start_idx (lines 32-36)
WindowEnd(start_idx, n, max_tokens, overlap_tokens) ==
  IF start_idx + max_tokens < n
  THEN start_idx + max_tokens + overlap_tokens
  ELSE start_idx + max_tokens

\* the start_idx of the next iteration (line 49)
AdvanceSliding(start_idx, max_tokens, overlap_tokens) ==
  start_idx + Max(1, max_tokens - overlap_tokens)

Advance(start_idx, max_tokens, overlap_tokens) == start_idx + max_tokens

\* The while loop of chunk_text_by_tokens (lines 30-49): the windows it
\* takes, in order; each is the record of start_idx, end_idx and the slice
\* tokens[start_idx:end_idx].
RECURSIVE TokenWindows(_, _, _, _)
TokenWindows(tokens, start_idx, max_tokens, overlap_tokens) ==
  IF ~(start_idx < Len(tokens)) THEN <<>>
  ELSE LET end_idx == WindowEnd(start_idx, Len(tokens), max_tokens, overlap_tokens)
       IN  <<[start |-> start_idx, end |-> end_idx,
              token_chunk |-> Slice(tokens, start_idx, end_idx)]>>
           \o TokenWindows(tokens, Advance(start_idx, max_tokens, overlap_tokens),
                           max_tokens, overlap_tokens)

\* the chunks appended for a sequence of windows (lines 42-46): the decoded,
\* cleaned window, kept when it is not empty
RECURSIVE WindowChunks(_)
WindowChunks(ws) ==
  IF ws = <<>> THEN <<>>
  ELSE LET chunk_text == clean_text(Decode(Head(ws).token_chunk))
       IN  (IF chunk_text # <<>> THEN <<chunk_text>> ELSE <<>>)
           \o WindowChunks(Tail(ws))

\* the windows chunk_text_by_tokens takes for a text: none when the text is
\* empty or whitespace-only (lines 21-22)
WindowsOfNoBlankCheck(t, max_tokens, overlap_tokens) ==
  TokenWindows(Encode(t), 0, max_tokens, overlap_tokens)

WindowsOf(t, max_tokens, overlap_tokens) ==
  IF Strip(t) = <<>> THEN <<>>
  ELSE TokenWindows(Encode(t), 0, max_tokens, overlap_tokens)

RECURSIVE DecodedWindows(_)
DecodedWindows(ws) ==
  IF ws = <<>> THEN <<>>
  ELSE <<Decode(Head(ws).token_chunk)>> \o DecodedWindows(Tail(ws))

\* chunk_text_by_tokens without the checks for blank text and blank chunks
chunk_text_by_tokens_keep_blank(t, max_tokens, overlap_tokens) ==
  DecodedWindows(WindowsOfNoBlankCheck(t, max_tokens, overlap_tokens))

chunk_text_by_tokens(t, max_tokens, overlap_tokens) ==
  WindowChunks(WindowsOf(t, max_tokens, overlap_tokens))

\* ------------------------------------------------------------------------
\* chunk_text_by_sentences
\* ------------------------------------------------------------------------

\* re.split(r'[.!?]+\s+', text): the pieces between the matches, a match
\* being a run of terminators followed by a run of whitespace; piece is the
\* text read since the last match
RECURSIVE SplitFrom(_, _)
SplitFrom(s, piece) ==
  IF s = <<>> THEN <<piece>>
  ELSE LET d == RunLen(s, "term")
           w == RunLen(SubSeq(s, d + 1, Len(s)), "space")
       IN  IF d > 0 /\ w > 0
           THEN <<piece>> \o SplitFrom(SubSeq(s, d + w + 1, Len(s)), <<>>)
           ELSE SplitFrom(Tail(s), Append(piece, s[1]))

SplitSentences(t) == SplitFrom(t, <<>>)

\* n copies of the value v
Repeat(v, n) == [i \in 1..n |-> v]

\* chunks.append(clean_text(current_chunk)) when current_chunk is not blank
\* (lines 74-75 and 84-85); origin records, chunk by chunk, whether the chunk
\* was flushed from accumulated sentences or produced by the token split,
\* and contributed the numbers of the sentences whose text the chunk holds;
\* members are the numbers of the sentences joined in current_chunk and seen
\* the number of sentences the loop has taken
Flush(st) ==
  IF Strip(st.current_chunk) # <<>>
  THEN [st EXCEPT !.chunks = Append(@, clean_text(st.current_chunk)),
                  !.origin = Append(@, "sentences"),
                  !.contributed = Append(@, st.members)]
  ELSE st

\* the loop body with token_count taken from the sentence alone instead of
\* from test_chunk
SentenceStepCountsSentence(st, sentence, max_tokens) ==
  LET test_chunk == IF st.current_chunk # <<>>
                    THEN st.current_chunk \o <<" ">> \o sentence
                    ELSE sentence
      token_count == Len(Encode(sentence))
  IN  IF token_count <= max_tokens
      THEN [st EXCEPT !.current_chunk = test_chunk,
                      !.members = @ \cup {st.seen + 1},
                      !.seen = @ + 1]
      ELSE LET fl == Flush(st)
           IN  LET sub_chunks == chunk_text_by_tokens(sentence, max_tokens, 0)
               IN  [fl EXCEPT !.chunks = @ \o sub_chunks,
                              !.origin = @ \o Repeat("token_split", Len(sub_chunks)),
                              !.contributed = @ \o Repeat({st.seen + 1}, Len(sub_chunks)),
                              !.seen = @ + 1]

\* one iteration of the for loop of chunk_text_by_sentences (lines 65-81)
SentenceStep(st, sentence, max_tokens) ==
  LET test_chunk == IF st.current_chunk # <<>>
                    THEN st.current_chunk \o <<" ">> \o sentence
                    ELSE sentence
      token_count == Len(Encode(test_chunk))
  IN  IF token_count <= max_tokens
      THEN [st EXCEPT !.current_chunk = test_chunk,
                      !.members = @ \cup {st.seen + 1},
                      !.seen = @ + 1]
      ELSE LET fl == Flush(st)
           IN  IF Len(Encode(sentence)) > max_tokens
               THEN LET sub_chunks == chunk_text_by_tokens(sentence, max_tokens, 0)
                    IN  [fl EXCEPT !.chunks = @ \o sub_chunks,
                                   !.origin = @ \o Repeat("token_split", Len(sub_chunks)),
                                   !.contributed = @ \o Repeat({st.seen + 1}, Len(sub_chunks)),
                                   !.seen = @ + 1]
               ELSE [fl EXCEPT !.current_chunk = sentence,
                               !.members = {st.seen + 1},
                               !.seen = @ + 1]

RECURSIVE SentenceLoop(_, _, _)
SentenceLoop(st, sentences, max_tokens) ==
  IF sentences = <<>> THEN st
  ELSE SentenceLoop(SentenceStep(st, Head(sentences), max_tokens),
                    Tail(sentences), max_tokens)

\* the state of chunk_text_by_sentences before its loop (lines 61-63)
SentenceStart ==
  [chunks |-> <<>>, current_chunk |-> <<>>, origin |-> <<>>, contributed |-> <<>>, members |-> {}, seen |-> 0]

\* chunk_text_by_sentences: the state of the function when it returns; its
\* result is the field chunks
SentenceRun(t, max_tokens) ==
  IF Strip(t) = <<>>
  THEN SentenceStart
  ELSE Flush(SentenceLoop(SentenceStart, SplitSentences(t), max_tokens))

chunk_text_by_sentences(t, max_tokens) == SentenceRun(t, max_tokens).chunks

\* ------------------------------------------------------------------------
\* create_chunk_dict and chunk_document
\* ------------------------------------------------------------------------

\* the hash keys a Python process can start with: hash() of a str is keyed
\* by a value drawn when the interpreter starts
MaxSeed == 1

Seeds == 0..MaxSeed

HashMod == 65536

CharCode(c) ==
  CASE c = "a" -> 1
    [] c = " " -> 2
    [] c = "." -> 3
    [] OTHER -> 4

\* hash(content) in a process whose hash key is seed
RECURSIVE HashFrom(_, _)
HashFrom(s, h) ==
  IF s = <<>> THEN h
  ELSE HashFrom(Tail(s), (h * 31 + CharCode(s[1])) % HashMod)

PyHash(content, seed) == HashFrom(content, (seed * 7919) % HashMod)

\* uuid5(NAMESPACE_URL, f"{source_path}_{len(content)}_{hash(content)}"):
\* the id is determined by the three parts of the name
ChunkId(content, source_path, seed) ==
  <<source_path, Len(content), PyHash(content, seed)>>

create_chunk_dict(content, source_path, document_id, title, chapter, section, metadata, seed) ==
  [chunk_id |-> ChunkId(content, source_path, seed),
   content |-> content,
   document_id |-> document_id,
   title |-> title,
   chapter |-> chapter,
   section |-> section,
   source_path |-> source_path,
   metadata |-> metadata]

chunk_document(content, source_path, document_id, title, chapter, section, chunk_method, m, o, seed) ==
  LET cs == IF chunk_method = "sentences"
            THEN chunk_text_by_sentences(content, m)
            ELSE chunk_text_by_tokens(content, m, o)
  IN  [i \in 1..Len(cs) |->
         create_chunk_dict(cs[i], source_path, document_id, title, chapter, section,
                           [chunk_index |-> i - 1, total_chunks |-> Len(cs),
                            method |-> chunk_method],
                           seed)]

\* ------------------------------------------------------------------------
\* The embedding provider (services/embedding_service.py)
\* ------------------------------------------------------------------------

\* The vector the provider returns for a text.  Vectors are unit vectors, so
\* the cosine similarity of two of them is their dot product.
Embed(t) ==
  CASE Len(t) % 4 = 1 -> <<1, 0>>
    [] Len(t) % 4 = 2 -> <<0, 1>>
    [] Len(t) % 4 = 3 -> <<-1, 0>>
    [] OTHER -> <<0, -1>>

\* generate_embeddings(texts) when the provider answers: one vector per
\* text, in the order of the texts
generate_embeddings(texts) == [i \in 1..Len(texts) |-> Embed(texts[i])]

Cosine(u, v) == u[1] * v[1] + u[2] * v[2]

\* ------------------------------------------------------------------------
\* The vector index adapter (services/vector_service.py)
\* ------------------------------------------------------------------------

\* the PointStruct store_chunks builds for a chunk and a vector (lines 63-75)
Point(chunk, vector) ==
  [id |-> chunk.chunk_id,
   vector |-> vector,
   payload |-> [content |-> chunk.content,
                document_id |-> chunk.document_id,
                title |-> chunk.title,
                chapter |-> chunk.chapter,
                section |-> chunk.section,
                source_path |-> chunk.source_path,
                metadata |-> chunk.metadata]]

\* the points list with every chunk given the first embedding
PointsOfFirstEmbedding(cs, embeddings) ==
  [i \in 1..Len(cs) |-> Point(cs[i], embeddings[1])]

\* the points list of store_chunks (lines 62-76)
PointsOf(cs, embeddings) ==
  [i \in 1..Len(cs) |-> Point(cs[i], embeddings[i])]

\* a write that appends the point whether or not its id is stored
UpsertPointAppend(idx, p) == Append(idx, p)

\* the engine's upsert of one point: the stored point of the same id is
\* replaced, a point of a new id is added
UpsertPoint(idx, p) ==
  IF \E i \in 1..Len(idx) : idx[i].id = p.id
  THEN [i \in 1..Len(idx) |-> IF idx[i].id = p.id THEN p ELSE idx[i]]
  ELSE Append(idx, p)

\* client.upsert(points) (lines 79-82): the points are applied in order
RECURSIVE Upsert(_, _)
Upsert(idx, points) ==
  IF points = <<>> THEN idx
  ELSE Upsert(UpsertPoint(idx, Head(points)), Tail(points))

\* store_chunks when the embeddings are generated: the collection after it
store_chunks(idx, cs) ==
  Upsert(idx, PointsOf(cs, generate_embeddings([i \in 1..Len(cs) |-> cs[i].content])))

\* Python's s[:n]
Prefix(s, n) == SubSeq(s, 1, Min(n, Len(s)))

\* sub in s, for Python strings
Contains(s, sub) ==
  \E i \in 0..(Len(s) - Len(sub)) : SubSeq(s, i + 1, i + Len(sub)) = sub

Reverse(s) == [i \in 1..Len(s) |-> s[Len(s) + 1 - i]]

\* the length of the selected-text prefix the filter matches on (line 103)
FilterPrefixLen == 100

\* the search_filter of search_chunks (lines 94-106): no filter for no or
\* empty selected text, else the stored content has to match the prefix
PassesFilter(p, selected_text) ==
  selected_text = <<>> \/ Contains(p.payload.content, Prefix(selected_text, FilterPrefixLen))

\* the engine's scored point for a stored point and a query vector
Scored(p, query_vector) ==
  [id |-> p.id, payload |-> p.payload, score |-> Cosine(query_vector, p.vector)]

\* insertion into a list ordered by descending r[key]; x goes behind the
\* elements of equal key
RECURSIVE InsertDesc(_, _, _)
InsertDesc(sorted, x, key) ==
  IF sorted = <<>> THEN <<x>>
  ELSE IF Head(sorted)[key] >= x[key]
       THEN <<Head(sorted)>> \o InsertDesc(Tail(sorted), x, key)
       ELSE <<x>> \o sorted

RECURSIVE SortDescFrom(_, _, _)
SortDescFrom(acc, rest, key) ==
  IF rest = <<>> THEN acc
  ELSE SortDescFrom(InsertDesc(acc, Head(rest), key), Tail(rest), key)

RECURSIVE SelectSeq2(_, _)
SelectSeq2(idx, selected_text) ==
  IF idx = <<>> THEN <<>>
  ELSE (IF PassesFilter(Head(idx), selected_text) THEN <<Head(idx)>> ELSE <<>>)
       \o SelectSeq2(Tail(idx), selected_text)

\* client.search (lines 109-115): the points passing the filter, by
\* descending cosine similarity, at most limit of them.  The engine does not
\* fix the order of points of equal score: tie_rev chooses between the
\* stored order and its reverse.
EngineSearch(idx, query_vector, limit, selected_text, tie_rev) ==
  LET cand == SelectSeq2(IF tie_rev THEN Reverse(idx) ELSE idx, selected_text)
      scored == [i \in 1..Len(cand) |-> Scored(cand[i], query_vector)]
  IN  Prefix(SortDescFrom(<<>>, scored, "score"), limit)

\* the result dict search_chunks builds for a scored point (lines 120-129)
FormatResult(r) ==
  [chunk_id |-> r.id,
   content |-> r.payload.content,
   document_id |-> r.payload.document_id,
   title |-> r.payload.title,
   source_path |-> r.payload.source_path,
   chapter |-> r.payload.chapter,
   section |-> r.payload.section,
   similarity_score |-> r.score]

\* search_chunks with the limit left to the engine's default
search_chunks_no_limit(idx, query, top_k, selected_text, tie_rev) ==
  LET found == EngineSearch(idx, Embed(query), 10, selected_text, tie_rev)
  IN  [i \in 1..Len(found) |-> FormatResult(found[i])]

\* search_chunks (lines 85-131) when the query embedding is generated
search_chunks(idx, query, top_k, selected_text, tie_rev) ==
  LET found == EngineSearch(idx, Embed(query), top_k, selected_text, tie_rev)
  IN  [i \in 1..Len(found) |-> FormatResult(found[i])]

\* an adapter that answers a failed search with an empty list
search_chunks_swallowing(idx, query, top_k, selected_text, tie_rev, fault) ==
  [status |-> "ok",
   results |-> IF fault = "none"
               THEN search_chunks(idx, query, top_k, selected_text, tie_rev)
               ELSE <<>>]

\* what the caller of search_chunks gets when the external service fault,
\* if any, fails: embed_single_text (line 91) raises what generate_embeddings
\* re-raises, client.search (line 109) raises, and search_chunks catches
\* neither
search_chunks_call(idx, query, top_k, selected_text, tie_rev, fault) ==
  IF fault = "embedding" THEN [status |-> "error", results |-> <<>>]
  ELSE IF fault = "engine" THEN [status |-> "error", results |-> <<>>]
  ELSE [status |-> "ok",
        results |-> search_chunks(idx, query, top_k, selected_text, tie_rev)]

\* ------------------------------------------------------------------------
\* The retrieval ranker (services/retrieval_service.py)
\* ------------------------------------------------------------------------

retrieve_relevant_chunks(idx, query, top_k, selected_text, tie_rev) ==
  search_chunks(idx, query, top_k, selected_text, tie_rev)

\* retrieve_relevant_chunks as its caller sees it (line 13)
retrieve_relevant_chunks_call(idx, query, top_k, selected_text, tie_rev, fault) ==
  search_chunks_call(idx, query, top_k, selected_text, tie_rev, fault)

\* chunk['composite_score'] = chunk['similarity_score'] (line 37)
WithComposite(c) ==
  [chunk_id |-> c.chunk_id,
   content |-> c.content,
   document_id |-> c.document_id,
   title |-> c.title,
   source_path |-> c.source_path,
   chapter |-> c.chapter,
   section |-> c.section,
   similarity_score |-> c.similarity_score,
   composite_score |-> c.similarity_score]

\* a descending sort that puts an element before the elements of equal key
RECURSIVE RankInsertBeforeTies(_, _)
RankInsertBeforeTies(sorted, x) ==
  IF sorted = <<>> THEN <<x>>
  ELSE IF Head(sorted).composite_score > x.composite_score
       THEN <<Head(sorted)>> \o RankInsertBeforeTies(Tail(sorted), x)
       ELSE <<x>> \o sorted

\* list.sort(key=composite_score, reverse=True) (line 40): Python's sort is
\* stable, also with reverse=True, so x goes behind the elements of equal key
RECURSIVE RankInsert(_, _)
RankInsert(sorted, x) ==
  IF sorted = <<>> THEN <<x>>
  ELSE IF Head(sorted).composite_score >= x.composite_score
       THEN <<Head(sorted)>> \o RankInsert(Tail(sorted), x)
       ELSE <<x>> \o sorted

RECURSIVE RankSortFrom(_, _)
RankSortFrom(acc, rest) ==
  IF rest = <<>> THEN acc
  ELSE RankSortFrom(RankInsert(acc, Head(rest)), Tail(rest))

\* retrieve_and_rank applied to the retrieved list (lines 35-41)
RankRetrieved(retrieved) ==
  RankSortFrom(<<>>, [i \in 1..Len(retrieved) |-> WithComposite(retrieved[i])])

\* retrieve_and_rank as its caller sees it
retrieve_and_rank_call(idx, query, top_k, tie_rev, fault) ==
  LET chunks == retrieve_relevant_chunks_call(idx, query, top_k, <<>>, tie_rev, fault)
  IN  IF chunks.status = "error"
      THEN [status |-> "error", results |-> <<>>, ranked |-> <<>>]
      ELSE [status |-> "ok", results |-> chunks.results,
            ranked |-> RankRetrieved(chunks.results)]

\* RAGService.process_query (services/rag_service.py lines 12-90) as its
\* caller sees it: the retrieval of step 1 and the generation of step 3 are
\* inside one try whose handler prints and re-raises; results is the
\* 'context_chunks' entry of the dict it returns
process_query_call(idx, query, top_k, selected_text, tie_rev, fault) ==
  LET relevant_chunks ==
        retrieve_relevant_chunks_call(idx, query, top_k, selected_text, tie_rev,
                                      IF fault = "generation" THEN "none" ELSE fault)
  IN  IF relevant_chunks.status = "error"
      THEN [status |-> "error", results |-> <<>>]
      ELSE IF fault = "generation"
      THEN [status |-> "error", results |-> <<>>]
      ELSE [status |-> "ok", results |-> relevant_chunks.results]

\* ------------------------------------------------------------------------
\* The groundedness validators
\* (services/validation_service.py, utils/validation.py)
\* ------------------------------------------------------------------------

\* str.lower() on one character
LowerChar(c) ==
  CASE c = "A" -> "a" [] c = "B" -> "b" [] c = "C" -> "c" [] c = "D" -> "d"
    [] c = "E" -> "e" [] c = "F" -> "f" [] c = "G" -> "g" [] c = "H" -> "h"
    [] c = "I" -> "i" [] c = "J" -> "j" [] c = "K" -> "k" [] c = "L" -> "l"
    [] c = "M" -> "m" [] c = "N" -> "n" [] c = "O" -> "o" [] c = "P" -> "p"
    [] c = "Q" -> "q" [] c = "R" -> "r" [] c = "S" -> "s" [] c = "T" -> "t"
    [] c = "U" -> "u" [] c = "V" -> "v" [] c = "W" -> "w" [] c = "X" -> "x"
    [] c = "Y" -> "y" [] c = "Z" -> "z" [] OTHER -> c

Lower(s) == [i \in 1..Len(s) |-> LowerChar(s[i])]

\* the elements of a sequence
Range(s) == {s[i] : i \in 1..Len(s)}

\* the maximal runs of the characters of s that are not of class cls, in
\* order of their position
RunStarts(s, cls) ==
  {i \in 1..Len(s) : ~InClass(s[i], cls) /\ (i = 1 \/ InClass(s[i - 1], cls))}

RunEnd(s, i, cls) ==
  CHOOSE j \in i..Len(s) :
    /\ \A k \in i..j : ~InClass(s[k], cls)
    /\ (j = Len(s) \/ InClass(s[j + 1], cls))

RunsOutside(s, cls) ==
  LET starts == RunStarts(s, cls)
      nth(k) == CHOOSE i \in starts : Cardinality({j \in starts : j < i}) = k - 1
  IN  [k \in 1..Cardinality(starts) |-> SubSeq(s, nth(k), RunEnd(s, nth(k), cls))]

\* str.split(): the maximal runs of non-whitespace characters, in order
Words(s) == RunsOutside(s, "space")

\* " ".join(parts)
RECURSIVE JoinSpace(_)
JoinSpace(parts) ==
  IF parts = <<>> THEN <<>>
  ELSE IF Len(parts) = 1 THEN parts[1]
  ELSE parts[1] \o <<" ">> \o JoinSpace(Tail(parts))

\* a confidence value, the fraction n/d in lowest terms
RECURSIVE GCD(_, _)
GCD(a, b) == IF b = 0 THEN a ELSE GCD(b, a % b)

\* a confidence that keeps the numerator and drops the denominator
FractionUndivided(n, d) == [n |-> n, d |-> 1]

Fraction(n, d) == [n |-> n \div GCD(n, d), d |-> d \div GCD(n, d)]

\* ValidationService.known_absence_phrases (lines 7-15)
known_absence_phrases ==
  <<
    <<"n", "o", "t", " ", "a", "v", "a", "i", "l", "a", "b", "l", "e", " ",
      "i", "n", " ", "t", "h", "e", " ", "b", "o", "o", "k">>,
    <<"n", "o", "t", " ", "f", "o", "u", "n", "d", " ", "i", "n", " ", "t",
      "h", "e", " ", "b", "o", "o", "k">>,
    <<"n", "o", "t", " ", "m", "e", "n", "t", "i", "o", "n", "e", "d", " ",
      "i", "n", " ", "t", "h", "e", " ", "b", "o", "o", "k">>,
    <<"n", "o", " ", "i", "n", "f", "o", "r", "m", "a", "t", "i", "o", "n",
      " ", "i", "n", " ", "t", "h", "e", " ", "b", "o", "o", "k">>,
    <<"b", "o", "o", "k", " ", "d", "o", "e", "s", " ", "n", "o", "t", " ",
      "c", "o", "n", "t", "a", "i", "n">>,
    <<"n", "o", "t", " ", "p", "r", "o", "v", "i", "d", "e", "d", " ", "i",
      "n", " ", "t", "h", "e", " ", "b", "o", "o", "k">>,
    <<"n", "o", "t", " ", "s", "p", "e", "c", "i", "f", "i", "e", "d", " ",
      "i", "n", " ", "t", "h", "e", " ", "b", "o", "o", "k">>
  >>

\* any(phrase in response_lower for phrase in self.known_absence_phrases)
has_absence_indicator(response) ==
  \E i \in 1..Len(known_absence_phrases) :
    Contains(Lower(response), known_absence_phrases[i])

\* the literal each pattern of generic_indicators starts with (lines 38-48);
\* the pattern is the literal followed by .*, so re.search finds it exactly
\* when the literal occurs in the text
generic_indicators ==
  <<
    <<"g", "e", "n", "e", "r", "a", "l", "l", "y">>,
    <<"i", "n", " ", "g", "e", "n", "e", "r", "a", "l">>,
    <<"t", "y", "p", "i", "c", "a", "l", "l", "y">>,
    <<"u", "s", "u", "a", "l", "l", "y">>,
    <<"m", "o", "s", "t">>,
    <<"m", "a", "n", "y">>,
    <<"e", "x", "t", "e", "r", "n", "a", "l", " ", "s", "o", "u", "r", "c",
      "e", "s">>,
    <<"o", "t", "h", "e", "r", " ", "s", "o", "u", "r", "c", "e", "s">>,
    <<"f", "r", "o", "m", " ", "e", "x", "t", "e", "r", "n", "a", "l", " ",
      "k", "n", "o", "w", "l", "e", "d", "g", "e">>
  >>

\* a loop that stops at the first pattern found
RECURSIVE GenericIssuesFirstOnly(_, _)
GenericIssuesFirstOnly(response_lower, i) ==
  IF i > Len(generic_indicators) THEN <<>>
  ELSE IF Contains(response_lower, generic_indicators[i])
       THEN <<<<"Response contains generic knowledge indicator", generic_indicators[i]>>>>
       ELSE GenericIssuesFirstOnly(response_lower, i + 1)

\* the issues the loop over generic_indicators appends (lines 50-54), from
\* the i-th pattern on
RECURSIVE GenericIssues(_, _)
GenericIssues(response_lower, i) ==
  IF i > Len(generic_indicators) THEN <<>>
  ELSE (IF Contains(response_lower, generic_indicators[i])
        THEN <<<<"Response contains generic knowledge indicator", generic_indicators[i]>>>>
        ELSE <<>>)
       \o GenericIssues(response_lower, i + 1)

\* ValidationService.validate_book_based_response; context_chunks is the
\* list of the chunks' contents
ValidationService_validate_book_based_response(response, context_chunks) ==
  IF has_absence_indicator(response)
  THEN [is_valid |-> TRUE, issues |-> <<>>, confidence |-> Fraction(9, 10)]
  ELSE LET generic == GenericIssues(Lower(response), 1)
           after_generic ==
             IF generic # <<>>
             THEN [is_valid |-> FALSE, issues |-> generic, confidence |-> Fraction(3, 10)]
             ELSE [is_valid |-> TRUE, issues |-> <<>>, confidence |-> Fraction(1, 1)]
           context_text == JoinSpace(context_chunks)
       IN  IF /\ context_chunks # <<>>
              /\ Len(Strip(context_text)) < 50
              /\ Len(Strip(response)) > 100
           THEN [is_valid |-> FALSE,
                 issues |-> Append(after_generic.issues,
                                   "Detailed response provided with minimal context"),
                 confidence |-> Fraction(2, 10)]
           ELSE after_generic

\* ValidationService.validate_selected_text_response
ValidationService_validate_selected_text_response(response, sel) ==
  IF has_absence_indicator(response)
  THEN [is_valid |-> TRUE, issues |-> <<>>, confidence |-> Fraction(9, 10)]
  ELSE LET after_empty ==
             IF Strip(sel) = <<>> /\ Len(Strip(response)) > 50
             THEN [is_valid |-> FALSE,
                   issues |-> <<"Response provided without selected text context">>,
                   confidence |-> Fraction(1, 10)]
             ELSE [is_valid |-> TRUE, issues |-> <<>>, confidence |-> Fraction(1, 1)]
           response_words == Range(Words(Lower(response)))
           selected_words == Range(Words(Lower(sel)))
           overlap == Cardinality(response_words \cap selected_words)
           total_response_words == Cardinality(response_words)
       IN  IF /\ sel # <<>>
              /\ Len(Strip(response)) > 20
              /\ selected_words # {}
              /\ total_response_words > 0
              /\ overlap * 10 < total_response_words
           THEN [after_empty EXCEPT
                   !.issues = Append(@, "Low semantic overlap between response and selected text"),
                   !.confidence = Fraction(5, 10)]
           ELSE after_empty

\* re.split(r'[.!?]+', response): the pieces between the runs of
\* terminators, with an empty piece before a leading run and after a
\* trailing one
SplitOnTerminators(s) ==
  (IF s = <<>> \/ IsTerminator(s[1]) THEN << <<>> >> ELSE <<>>)
  \o RunsOutside(s, "term")
  \o (IF s # <<>> /\ IsTerminator(s[Len(s)]) THEN << <<>> >> ELSE <<>>)

\* [s.strip() for s in pieces if s.strip()]
RECURSIVE StripNonEmpty(_)
StripNonEmpty(pieces) ==
  IF pieces = <<>> THEN <<>>
  ELSE (IF Strip(Head(pieces)) # <<>> THEN <<Strip(Head(pieces))>> ELSE <<>>)
       \o StripNonEmpty(Tail(pieces))

response_sentences(response) == StripNonEmpty(SplitOnTerminators(response))

\* set([word for word in text.split() if len(word) > 3])
LongWords(t) == {w \in Range(Words(t)) : Len(w) > 3}

\* a loop that calls a sentence invalid only when it shares no long word
\* with the selected text
SentenceClassNoCommonOnly(sentence, sel) ==
  LET sentence_words == LongWords(Strip(Lower(sentence)))
      selected_words == LongWords(Lower(sel))
  IN  IF sentence_words = {} THEN "none"
      ELSE IF sentence_words \cap selected_words = {} THEN "invalid" ELSE "valid"

\* how the loop of utils.validate_selected_text_response classes a sentence
\* (lines 177-193): "invalid", "valid", or "none" for a sentence without a
\* word of more than 3 characters
SentenceClass(sentence, sel) ==
  LET sentence_words == LongWords(Strip(Lower(sentence)))
      selected_words == LongWords(Lower(sel))
      common_words == sentence_words \cap selected_words
  IN  IF sentence_words = {} THEN "none"
      ELSE IF Cardinality(common_words) * 10 < 3 * Cardinality(sentence_words)
           THEN "invalid"
           ELSE "valid"

CountClass(sentences, sel, cls) ==
  Cardinality({i \in 1..Len(sentences) : SentenceClass(sentences[i], sel) = cls})

\* external_indicators of utils.validate_selected_text_response (lines 201-207)
external_indicators ==
  <<
    <<"i", " ", "d", "o", "n", "'", "t", " ", "k", "n", "o", "w">>,
    <<"n", "o", "t", " ", "i", "n", " ", "t", "h", "e", " ", "p", "r", "o",
      "v", "i", "d", "e", "d", " ", "t", "e", "x", "t">>,
    <<"n", "o", "t", " ", "f", "o", "u", "n", "d", " ", "i", "n", " ", "t",
      "h", "e", " ", "s", "e", "l", "e", "c", "t", "e", "d", " ", "t", "e",
      "x", "t">>,
    <<"n", "o", "t", " ", "m", "e", "n", "t", "i", "o", "n", "e", "d", " ",
      "i", "n", " ", "t", "h", "e", " ", "t", "e", "x", "t">>,
    <<"n", "o", "t", " ", "s", "p", "e", "c", "i", "f", "i", "e", "d", " ",
      "i", "n", " ", "t", "h", "e", " ", "t", "e", "x", "t">>
  >>

\* the validator without the check for explicit-refusal phrases
validate_selected_text_response_no_refusal_check(response, sel) ==
  IF response = <<>>
  THEN [is_valid |-> FALSE, errors |-> <<"Response cannot be empty">>,
        confidence |-> Fraction(0, 1)]
  ELSE IF sel = <<>>
  THEN [is_valid |-> FALSE,
        errors |-> <<"Selected text cannot be empty for validation">>,
        confidence |-> Fraction(0, 1)]
  ELSE LET sentences == response_sentences(response)
           invalid == CountClass(sentences, sel, "invalid")
           valid == CountClass(sentences, sel, "valid")
           total_sentences == Len(sentences)
           errors == IF total_sentences > 0 /\ invalid * 2 > total_sentences
                     THEN <<<<"Response contains information not found in selected text",
                              invalid, total_sentences>>>>
                     ELSE <<>>
       IN  [is_valid |-> errors = <<>>,
            errors |-> errors,
            confidence |-> IF total_sentences > 0
                           THEN Fraction(Min(valid, total_sentences), total_sentences)
                           ELSE Fraction(0, 1),
            valid_sentences_count |-> valid,
            invalid_sentences_count |-> invalid,
            total_sentences |-> total_sentences]

\* utils.validation.validate_selected_text_response
validate_selected_text_response(response, sel) ==
  IF response = <<>>
  THEN [is_valid |-> FALSE, errors |-> <<"Response cannot be empty">>,
        confidence |-> Fraction(0, 1)]
  ELSE IF sel = <<>>
  THEN [is_valid |-> FALSE,
        errors |-> <<"Selected text cannot be empty for validation">>,
        confidence |-> Fraction(0, 1)]
  ELSE LET sentences == response_sentences(response)
           invalid == CountClass(sentences, sel, "invalid")
           valid == CountClass(sentences, sel, "valid")
           total_sentences == Len(sentences)
           errors == IF total_sentences > 0 /\ invalid * 2 > total_sentences
                     THEN <<<<"Response contains information not found in selected text",
                              invalid, total_sentences>>>>
                     ELSE <<>>
       IN  IF \E i \in 1..Len(external_indicators) :
                Contains(Lower(response), external_indicators[i])
           THEN [is_valid |-> TRUE, errors |-> <<>>, confidence |-> Fraction(1, 1),
                 validation_note |->
                   "Response properly indicates information not available in selected text"]
           ELSE [is_valid |-> errors = <<>>,
                 errors |-> errors,
                 confidence |-> IF total_sentences > 0
                                THEN (IF valid > total_sentences
                                      THEN Fraction(1, 1)
                                      ELSE Fraction(valid, total_sentences))
                                ELSE Fraction(0, 1),
                 valid_sentences_count |-> valid,
                 invalid_sentences_count |-> invalid,
                 total_sentences |-> total_sentences]

\* a division the code executes when guard holds divides by zero
DividesByZero(guard, divisor) == guard /\ divisor = 0

\* the source lines of ValidationService.validate_selected_text_response
\* at which a division by zero is executed: the overlap ratio of line 108
ServiceZeroDivisions(response, sel) ==
  LET response_words == Range(Words(Lower(response)))
      selected_words == Range(Words(Lower(sel)))
      reached == /\ ~has_absence_indicator(response)
                 /\ sel # <<>>
                 /\ Len(Strip(response)) > 20
                 /\ selected_words # {}
  IN  IF DividesByZero(reached /\ Cardinality(response_words) > 0,
                       Cardinality(response_words))
      THEN {108} ELSE {}

\* a validator that computes valid_ratio without testing total_sentences
ZeroDivisionsUnguardedRatio(response, sel) ==
  IF response = <<>> \/ sel = <<>> THEN {}
  ELSE LET sentences == response_sentences(response)
           total_sentences == Len(sentences)
           refusal == \E i \in 1..Len(external_indicators) :
                        Contains(Lower(response), external_indicators[i])
       IN  IF DividesByZero(~refusal, total_sentences) THEN {221} ELSE {}

\* the source lines of utils.validation.validate_selected_text_response at
\* which a division by zero is executed: the overlap ratio of line 188, the
\* invalid fraction of line 197 and the valid ratio of line 221
ZeroDivisions(response, sel) ==
  IF response = <<>> \/ sel = <<>> THEN {}
  ELSE LET sentences == response_sentences(response)
           total_sentences == Len(sentences)
           refusal == \E i \in 1..Len(external_indicators) :
                        Contains(Lower(response), external_indicators[i])
       IN  {188 : i \in {k \in 1..total_sentences :
                           LET sentence_words == LongWords(Strip(Lower(sentences[k])))
                           IN  DividesByZero(sentence_words # {},
                                             Cardinality(sentence_words))}}
           \cup (IF DividesByZero(total_sentences > 0, total_sentences)
                 THEN {197} ELSE {})
           \cup (IF DividesByZero(~refusal /\ total_sentences > 0, total_sentences)
                 THEN {221} ELSE {})

\* ------------------------------------------------------------------------
\* State
\* ------------------------------------------------------------------------

VARIABLES
  \* the chunker: the arguments of the call and what it returned
  text,            \* the input text
  max_tokens,      \* the max_tokens argument
  overlap_tokens,  \* the overlap_tokens argument
  chunk_call,      \* the function that was called, "none" before the call
  chunks,          \* the chunk strings returned
  windows,         \* the token windows the while loop took (history)
  origin,          \* per chunk of sentence mode, where it came from (history)
  chunk_dicts,     \* the records chunk_document returned
  \* the ingestion process and the vector collection
  hash_seed,       \* the hash key of the running Python process
  index,           \* the points of the collection, in stored order
  ingests,         \* number of ingestion runs so far
  store_status,    \* how the last ingestion run ended
  last_chunks,     \* the chunk list of the last store_chunks call
  last_embeddings, \* the embeddings the provider returned to it (history)
  upsert_batches,  \* the batches it passed to client.upsert (history)
  latest,          \* per chunk_id, the points of that id in the most recent
                   \* stored batch that held the id (history)
  id_log,          \* the chunk_id sequences chunk_document produced (history)
  \* a search request and its answer
  query,
  top_k,
  selected_text,
  search_call,     \* the function that was called, "none" before the call
  search_fault,    \* the external service that failed during the call, or
                   \* "none" (history)
  search_status,   \* "ok", or "error" when the call raised
  results,         \* what search_chunks returned
  ranked,          \* what retrieve_and_rank returned
  \* a validator call and its verdict
  v_op,            \* the validator that was called, "none" before the call
  v_given,         \* the arguments as the caller passed them (history)
  v_response,      \* the answer, as the call left it
  v_selected,      \* the selected text, as the call left it
  v_context,       \* the contents of the context chunks, as the call left them
  v_status,        \* "returned", or "raised" when the call raised
  verdict,         \* the dict it returned
  \* a request to an endpoint and how it was handled
  ep_name,         \* the handler that ran, "none" before the request
  ep_request,      \* the request body
  ep_calls,        \* the calls to the cache, the database, the embedding
                   \* provider, the index and the LLM it made, in order
  ep_status,       \* the HTTP status of the answer
  \* a chunking call executed statement by statement
  chunk_loop,      \* the function running, its position and its loop variables
  \* wall-clock time, as time.time() returns it
  clock,
  \* the service: the database, the response cache and the last request
  db,              \* the tables chat_sessions, user_queries and responses
  response_cache,  \* the LRUCache instance response_cache
  session_owner,   \* per session_id, the client it was created for (history)
  handled,         \* number of requests handled so far
  exchange,        \* the last request and how it was handled (history)
  \* the rate limiter
  rate_limiter,    \* the RateLimiter instance
  allowed_log,     \* per identifier, the times of its allowed calls (history)
  limiter_call,    \* the last is_allowed call and its outcome (history)
  \* an LRUCache instance called on its own
  lru,             \* the LRUCache instance
  lru_call         \* the last call to it and its outcome (history)

chunk_vars == <<text, max_tokens, overlap_tokens, chunk_call, chunks, windows, origin, chunk_dicts>>

index_vars == <<hash_seed, index, ingests, store_status, last_chunks, last_embeddings, upsert_batches, latest, id_log>>

search_vars == <<query, top_k, selected_text, search_call, search_fault, search_status, results, ranked>>

valid_vars == <<v_op, v_given, v_response, v_selected, v_context, v_status, verdict>>

endpoint_vars == <<ep_name, ep_request, ep_calls, ep_status>>

loop_vars == <<chunk_loop>>

time_vars == <<clock>>

service_vars == <<db, response_cache, session_owner, handled, exchange>>

limiter_vars == <<rate_limiter, allowed_log, limiter_call>>

cache_vars == <<lru, lru_call>>

vars == <<chunk_vars, index_vars, search_vars, valid_vars, endpoint_vars, loop_vars, time_vars, service_vars, limiter_vars, cache_vars>>

\* ------------------------------------------------------------------------
\* The chunker called on one text
\* ------------------------------------------------------------------------

\* every text of at most MaxTextLen characters
Texts == UNION {[1..n -> Alphabet] : n \in 0..MaxTextLen}

ChunkIdle ==
  /\ chunk_call = "none"
  /\ chunks = <<>>
  /\ windows = <<>>
  /\ origin = <<>>
  /\ chunk_dicts = <<>>

\* an empty collection in a process that has ingested nothing
IndexIdle ==
  /\ index = <<>>
  /\ ingests = 0
  /\ store_status = "none"
  /\ last_chunks = <<>>
  /\ last_embeddings = <<>>
  /\ upsert_batches = <<>>
  /\ latest = <<>>
  /\ id_log = {}

SearchIdle ==
  /\ query = <<>>
  /\ top_k = 0
  /\ selected_text = <<>>
  /\ search_call = "none"
  /\ search_fault = "none"
  /\ search_status = "none"
  /\ results = <<>>
  /\ ranked = <<>>

ValidIdle ==
  /\ v_op = "none"
  /\ v_given = <<>>
  /\ v_status = "none"
  /\ v_response = <<>>
  /\ v_selected = <<>>
  /\ v_context = <<>>
  /\ verdict = <<>>

EndpointIdle ==
  /\ ep_name = "none"
  /\ ep_request = <<>>
  /\ ep_calls = <<>>
  /\ ep_status = 0

\* no chunking call is running
LoopIdle ==
  chunk_loop = [fn |-> "none", pc |-> "idle", tokens |-> <<>>, start_idx |-> 0,
                step |-> 0, sentences |-> <<>>, current_chunk |-> <<>>]

\* the request of an exchange before any request arrived
NoRequest ==
  [message |-> <<>>, selected_text |-> [given |-> FALSE, value |-> <<>>],
   session_id |-> 0, top_k |-> 0]

\* the exchange before any request arrived
NoExchange ==
  [handler |-> "none", client |-> "none", request |-> NoRequest, status |-> 0,
   calls |-> <<>>, cache_hit |-> FALSE,
   generated |-> [called |-> FALSE, ok |-> FALSE, text |-> <<>>],
   retrieved |-> <<>>,
   verdicts |-> [api_validation |-> <<>>, selected_text_validation |-> <<>>],
   delivered |-> [given |-> FALSE, response |-> <<>>, session_id |-> 0,
                  sources |-> <<>>],
   sessions_before |-> {}, session_id |-> 0, query_id |-> 0, response_id |-> 0]

\* max_size of response_cache (utils/cache.py line 69)
ResponseCacheMaxSize == 200

\* largest cache_ttl, in ticks of the clock
MaxTtl == 2

\* an empty database, an empty response cache and no request handled
ServiceIdle ==
  /\ db = [chat_sessions |-> {}, user_queries |-> {}, responses |-> {}]
  /\ response_cache = [max_size |-> ResponseCacheMaxSize, ttl |-> MaxTtl, cache |-> <<>>]
  /\ session_owner = <<>>
  /\ handled = 0
  /\ exchange = NoExchange

\* request.client.host and the user-id header of the requests the rate
\* limiter sees; "" stands for a request without the header
Hosts == {"10.0.0.1"}

UserIds == {"", "u1"}

\* client_id of rate_limit_middleware (lines 43-48)
ClientId(host, user_id) ==
  IF user_id # "" THEN host \o ":" \o user_id ELSE host

Identifiers == {ClientId(h, u) : h \in Hosts, u \in UserIds}

\* a rate limiter that has seen no request; a defaultdict reads a missing
\* identifier as an empty deque
LimiterIdle ==
  /\ rate_limiter = [requests |-> [id \in Identifiers |-> <<>>],
                     window_size |-> 0, max_requests |-> 0]
  /\ allowed_log = [id \in Identifiers |-> <<>>]
  /\ limiter_call = [identifier |-> "", now |-> 0, allowed |-> FALSE, calls |-> 0]

\* an empty cache that was not called
CacheIdle ==
  /\ lru = [max_size |-> 1, ttl |-> 1, cache |-> <<>>]
  /\ lru_call = [op |-> "none", key |-> "", hit |-> FALSE, turn |-> 0]

InitChunk ==
  /\ text \in Texts
  /\ max_tokens \in 1..MaxMaxTokens
  /\ overlap_tokens \in 0..MaxOverlap
  /\ ChunkIdle
  /\ hash_seed = 0
  /\ IndexIdle
  /\ SearchIdle
  /\ ValidIdle
  /\ EndpointIdle
  /\ LoopIdle
  /\ clock = 0
  /\ ServiceIdle
  /\ LimiterIdle
  /\ CacheIdle

CallChunkTextByTokens ==
  /\ chunk_call = "none"
  /\ chunk_call' = "chunk_text_by_tokens"
  /\ windows' = WindowsOf(text, max_tokens, overlap_tokens)
  /\ chunks' = chunk_text_by_tokens(text, max_tokens, overlap_tokens)
  /\ UNCHANGED <<text, max_tokens, overlap_tokens, origin, chunk_dicts>>
  /\ UNCHANGED <<index_vars, search_vars, valid_vars, endpoint_vars, loop_vars, time_vars, service_vars, limiter_vars, cache_vars>>

CallChunkTextBySentences ==
  /\ chunk_call = "none"
  /\ chunk_call' = "chunk_text_by_sentences"
  /\ chunks' = chunk_text_by_sentences(text, max_tokens)
  /\ origin' = SentenceRun(text, max_tokens).origin
  /\ UNCHANGED <<text, max_tokens, overlap_tokens, windows, chunk_dicts>>
  /\ UNCHANGED <<index_vars, search_vars, valid_vars, endpoint_vars, loop_vars, time_vars, service_vars, limiter_vars, cache_vars>>

\* chunk_document with either method
CallChunkDocument ==
  /\ chunk_call = "none"
  /\ \E chunk_method \in {"tokens", "sentences"} :
       /\ chunk_call' = "chunk_document"
       /\ chunk_dicts' = chunk_document(text, "p1", "d1", "T1", "General", "s1",
                                        chunk_method, max_tokens, overlap_tokens, hash_seed)
       /\ chunks' = [i \in 1..Len(chunk_dicts') |-> chunk_dicts'[i].content]
  /\ UNCHANGED <<text, max_tokens, overlap_tokens, windows, origin>>
  /\ UNCHANGED <<index_vars, search_vars, valid_vars, endpoint_vars, loop_vars, time_vars, service_vars, limiter_vars, cache_vars>>

NextChunk ==
  \/ CallChunkTextByTokens
  \/ CallChunkTextBySentences
  \/ CallChunkDocument

SpecChunk == InitChunk /\ [][NextChunk]_vars

\* ------------------------------------------------------------------------
\* Properties of the chunker
\* ------------------------------------------------------------------------

\* C1: the k-th window of chunk_text_by_tokens (k = 0, 1, ...) starts at
\* token offset k*max_tokens and holds the tokens from k*max_tokens up to
\* k*max_tokens + max_tokens, extended by overlap_tokens exactly when tokens
\* remain beyond k*max_tokens + max_tokens; the start advances by max_tokens.
C1_WindowOffsets ==
  chunk_call = "chunk_text_by_tokens" =>
    LET tokens == Encode(text)
        n == Len(tokens)
    IN  \A i \in 1..Len(windows) :
          LET k == i - 1
              lo == k * max_tokens
              hi == IF k * max_tokens + max_tokens < n
                    THEN k * max_tokens + max_tokens + overlap_tokens
                    ELSE k * max_tokens + max_tokens
              top == IF hi < n THEN hi ELSE n
              w == windows[i]
          IN  /\ w.start = lo
              /\ lo < n
              /\ Len(w.token_chunk) = top - lo
              /\ \A j \in 1..(top - lo) : w.token_chunk[j] = tokens[lo + j]
              /\ i > 1 => w.start - windows[i - 1].start = max_tokens

\* a call that took an extended window and then a last, unextended one
C1_Witness ==
  /\ chunk_call = "chunk_text_by_tokens"
  /\ Len(windows) >= 2
  /\ overlap_tokens > 0
  /\ max_tokens > overlap_tokens
  /\ Len(windows[1].token_chunk) = max_tokens + overlap_tokens
  /\ Len(windows[Len(windows)].token_chunk) <= max_tokens

\* the first max_tokens tokens of every window, concatenated in order
RECURSIVE ConcatHeads(_, _)
ConcatHeads(ws, m) ==
  IF ws = <<>> THEN <<>>
  ELSE SubSeq(Head(ws).token_chunk, 1, Min(m, Len(Head(ws).token_chunk)))
       \o ConcatHeads(Tail(ws), m)

\* C2 (as stated): for every text, the windows of chunk_text_by_tokens with
\* their trailing overlap removed concatenate to the text's token sequence.
C2_CoverageEveryText ==
  chunk_call = "chunk_text_by_tokens" =>
    ConcatHeads(windows, max_tokens) = Encode(text)

\* C2 (amended): for every text that is not whitespace-only, the windows of
\* chunk_text_by_tokens with their trailing overlap removed concatenate to
\* the text's token sequence, no token missing and none repeated.
C2_CoverageNonBlank ==
  (chunk_call = "chunk_text_by_tokens" /\ Strip(text) # <<>>) =>
    ConcatHeads(windows, max_tokens) = Encode(text)

\* a call on a text of several windows, the windows overlapping
C2_Witness ==
  /\ chunk_call = "chunk_text_by_tokens"
  /\ Strip(text) # <<>>
  /\ Len(windows) >= 3
  /\ overlap_tokens > 0
  /\ Len(windows[1].token_chunk) > max_tokens

C4_BlankTextNoChunks ==
  (chunk_call # "none" /\ Strip(text) = <<>>) =>
    /\ chunks = <<>>
    /\ chunk_dicts = <<>>

\* each of the three functions called on a text of two spaces
C4_Witness ==
  /\ text = <<" ", " ">>
  /\ chunk_call = "chunk_document"
  /\ chunks = <<>>

\* ------------------------------------------------------------------------
\* Ingestion runs (ingest.py) against one collection
\* ------------------------------------------------------------------------

\* most ingestion runs in one behaviour
MaxIngests == 2

\* the relative paths of the ingested files
Paths == {"p1", "p2"}

\* the plain text of the ingested files
Docs ==
  { <<"a">>,
    <<"a", " ", "a">>,
    <<"a", " ", "a", "a">>,
    <<" ">> }

\* the chunks process_markdown_file makes of a file (ingest.py lines 48-68):
\* document id, title and section derive from the path
process_markdown_file(path, plain_text, m, o, seed) ==
  chunk_document(plain_text, path, <<"doc", path>>, <<"title", path>>, "General",
                 <<"section", path>>, "tokens", m, o, seed)

RECURSIVE ChunkIds(_)
ChunkIds(cs) ==
  IF cs = <<>> THEN <<>> ELSE <<Head(cs).chunk_id>> \o ChunkIds(Tail(cs))

\* max_tokens and overlap_tokens are the values process_markdown_file passes
\* to chunk_document, the same in every run; no file of Docs has more than
\* two tokens, so a window of two tokens and an overlap of one token already
\* behave as every larger value does
InitIngest ==
  /\ text = <<>>
  /\ max_tokens \in 1..Min(MaxMaxTokens, 2)
  /\ overlap_tokens \in 0..Min(MaxOverlap, 1)
  /\ ChunkIdle
  /\ hash_seed \in Seeds
  /\ IndexIdle
  /\ SearchIdle
  /\ ValidIdle
  /\ EndpointIdle
  /\ LoopIdle
  /\ clock = 0
  /\ ServiceIdle
  /\ LimiterIdle
  /\ CacheIdle

\* the ingestion process ends and a new one starts: the new interpreter draws
\* its hash key; the collection lives in the vector engine and stays
RestartProcess ==
  /\ \E s \in Seeds \ {hash_seed} : hash_seed' = s
  /\ UNCHANGED <<index, ingests, store_status, last_chunks, last_embeddings,
                 upsert_batches, latest, id_log>>
  /\ UNCHANGED <<chunk_vars, search_vars, valid_vars, endpoint_vars, loop_vars, time_vars, service_vars, limiter_vars, cache_vars>>

\* ingest_documents on a directory holding one file (ingest.py lines 98-116):
\* the file is chunked, and unless there is no chunk the chunks are stored;
\* embed_ok tells whether the embedding provider answers
IngestDocument ==
  /\ ingests < MaxIngests
  /\ \E path \in Paths, doc \in Docs, embed_ok \in BOOLEAN :
       LET cs == process_markdown_file(path, doc, max_tokens, overlap_tokens, hash_seed)
           texts == [i \in 1..Len(cs) |-> cs[i].content]
           batch_ids == {cs[i].chunk_id : i \in 1..Len(cs)}
       IN  /\ ingests' = ingests + 1
           /\ id_log' = id_log \cup
                {[source_path |-> path, content |-> doc, chunk_ids |-> ChunkIds(cs)]}
           /\ IF cs = <<>>
              THEN /\ store_status' = "no_chunks"
                   /\ last_chunks' = <<>>
                   /\ last_embeddings' = <<>>
                   /\ upsert_batches' = <<>>
                   /\ UNCHANGED <<index, latest>>
              ELSE IF ~embed_ok
              THEN /\ store_status' = "embedding_error"
                   /\ last_chunks' = cs
                   /\ last_embeddings' = <<>>
                   /\ upsert_batches' = <<>>
                   /\ UNCHANGED <<index, latest>>
              ELSE /\ store_status' = "stored"
                   /\ last_chunks' = cs
                   /\ last_embeddings' = generate_embeddings(texts)
                   /\ upsert_batches' = <<PointsOf(cs, generate_embeddings(texts))>>
                   /\ index' = store_chunks(index, cs)
                   /\ latest' =
                        [id \in (DOMAIN latest) \cup batch_ids |->
                           IF id \in batch_ids
                           THEN {Point(cs[i], Embed(cs[i].content)) :
                                   i \in {j \in 1..Len(cs) : cs[j].chunk_id = id}}
                           ELSE latest[id]]
  /\ UNCHANGED hash_seed
  /\ UNCHANGED <<chunk_vars, search_vars, valid_vars, endpoint_vars, loop_vars, time_vars, service_vars, limiter_vars, cache_vars>>

NextIngest ==
  \/ RestartProcess
  \/ IngestDocument

SpecIngest == InitIngest /\ [][NextIngest]_vars

\* ------------------------------------------------------------------------
\* Properties of chunk identity and of store_chunks
\* ------------------------------------------------------------------------

\* C5: chunking the same text at the same source path twice, in the same run
\* or in a later run of the program, yields the identical sequence of
\* chunk_ids.
C5_SameTextSameIds ==
  \A r1 \in id_log, r2 \in id_log :
    (r1.source_path = r2.source_path /\ r1.content = r2.content)
      => r1.chunk_ids = r2.chunk_ids

\* the collection holds one point per id ever stored, and the point of an id
\* is a point of the most recent stored batch that held the id
OnePointPerId ==
  /\ \A i \in 1..Len(index), j \in 1..Len(index) :
       i # j => index[i].id # index[j].id
  /\ {index[i].id : i \in 1..Len(index)} = DOMAIN latest
  /\ \A i \in 1..Len(index) : index[i] \in latest[index[i].id]

\* C6: after every store_chunks call the collection holds at most one point
\* per chunk_id, the point of the most recent call that held the id; storing
\* the chunk list of the previous call again leaves the collection as it is.
C6_UpsertOverwrites ==
  [][ /\ OnePointPerId'
      /\ (/\ store_status = "stored"
          /\ store_status' = "stored"
          /\ ingests' = ingests + 1
          /\ last_chunks' = last_chunks) => index' = index ]_vars

\* two runs were made, the last one stored a batch holding one id twice, and
\* the collection holds a single point, the one of the last batch
C6_Witness ==
  /\ ingests = 2
  /\ store_status = "stored"
  /\ Cardinality(id_log) = 2
  /\ Len(last_chunks) = 2
  /\ last_chunks[1].chunk_id = last_chunks[2].chunk_id
  /\ Len(index) = 1
  /\ index[1].payload.metadata.total_chunks = 2

\* C7: a store_chunks call that gets its embeddings passes one batch to the
\* engine, one point per chunk, the i-th point made of the i-th chunk and the
\* i-th embedding; a call whose embedding request raises passes no batch and
\* leaves the collection unchanged.
C7_OnePointPerChunk ==
  [][ /\ store_status' = "stored" =>
           /\ Len(upsert_batches') = 1
           /\ Len(upsert_batches'[1]) = Len(last_chunks')
           /\ \A i \in 1..Len(last_chunks') :
                /\ upsert_batches'[1][i].id = last_chunks'[i].chunk_id
                /\ upsert_batches'[1][i].payload.content = last_chunks'[i].content
                /\ upsert_batches'[1][i].vector = last_embeddings'[i]
      /\ store_status' = "embedding_error" =>
           /\ upsert_batches' = <<>>
           /\ index' = index ]_vars

\* a stored batch of two chunks whose embeddings differ, written to a
\* collection that already held points
C7_Witness ==
  /\ ingests = 2
  /\ store_status = "stored"
  /\ Len(last_chunks) = 2
  /\ last_embeddings[1] # last_embeddings[2]
  /\ Len(index) >= 3

\* ------------------------------------------------------------------------
\* Search requests against a collection
\* ------------------------------------------------------------------------

\* largest top_k of a search request
MaxTopK == 3

\* the query texts; their embeddings differ
Queries == { <<"a">>, <<"a", "a">>, <<"a", "a", "a">> }

\* the selected_text arguments: none, and two texts
SelectedTexts == { <<>>, <<"a">>, <<"a", "a">> }

\* the files that leave at least one chunk
StoredDocs == {d \in Docs : Strip(d) # <<>>}

\* the state after two ingestion runs of one process stored the file d1 at
\* p1 and then the file d2 at p2
TwoRunsStored(d1, d2) ==
  LET cs1 == process_markdown_file("p1", d1, max_tokens, overlap_tokens, hash_seed)
      cs2 == process_markdown_file("p2", d2, max_tokens, overlap_tokens, hash_seed)
      ids1 == {cs1[i].chunk_id : i \in 1..Len(cs1)}
      ids2 == {cs2[i].chunk_id : i \in 1..Len(cs2)}
      texts2 == [i \in 1..Len(cs2) |-> cs2[i].content]
  IN  /\ index = store_chunks(store_chunks(<<>>, cs1), cs2)
      /\ ingests = 2
      /\ store_status = "stored"
      /\ last_chunks = cs2
      /\ last_embeddings = generate_embeddings(texts2)
      /\ upsert_batches = <<PointsOf(cs2, generate_embeddings(texts2))>>
      /\ latest = [id \in ids1 \cup ids2 |->
                     IF id \in ids2
                     THEN {Point(cs2[i], Embed(cs2[i].content)) :
                             i \in {j \in 1..Len(cs2) : cs2[j].chunk_id = id}}
                     ELSE {Point(cs1[i], Embed(cs1[i].content)) :
                             i \in {j \in 1..Len(cs1) : cs1[j].chunk_id = id}}]
      /\ id_log = {[source_path |-> "p1", content |-> d1, chunk_ids |-> ChunkIds(cs1)],
                   [source_path |-> "p2", content |-> d2, chunk_ids |-> ChunkIds(cs2)]}

\* the collection is empty, or holds what two ingestion runs of one process
\* stored, a file at p1 and then a file at p2
InitSearch ==
  /\ text = <<>>
  /\ max_tokens \in 1..MaxMaxTokens
  /\ overlap_tokens \in 0..MaxOverlap
  /\ ChunkIdle
  /\ hash_seed = 0
  /\ \/ IndexIdle
     \/ \E d1 \in StoredDocs, d2 \in StoredDocs : TwoRunsStored(d1, d2)
  /\ SearchIdle
  /\ ValidIdle
  /\ EndpointIdle
  /\ LoopIdle
  /\ clock = 0
  /\ ServiceIdle
  /\ LimiterIdle
  /\ CacheIdle

\* the external services a search depends on, and those of the pipeline
SearchFaults == {"none", "embedding", "engine"}

PipelineFaults == SearchFaults \cup {"generation"}

\* retrieve_relevant_chunks, which is search_chunks: fault tells which
\* external service fails, tie_rev how the engine orders equal scores
RetrieveRelevantChunks ==
  /\ search_call = "none"
  /\ \E q \in Queries, k \in 0..MaxTopK, sel \in SelectedTexts,
        tie_rev \in BOOLEAN, fault \in SearchFaults :
       LET r == retrieve_relevant_chunks_call(index, q, k, sel, tie_rev, fault)
       IN  /\ query' = q
           /\ top_k' = k
           /\ selected_text' = sel
           /\ search_call' = "retrieve_relevant_chunks"
           /\ search_fault' = fault
           /\ search_status' = r.status
           /\ results' = r.results
           /\ ranked' = <<>>
  /\ UNCHANGED <<chunk_vars, index_vars, valid_vars, endpoint_vars, loop_vars, time_vars, service_vars, limiter_vars, cache_vars>>

\* retrieve_and_rank: results is the list it retrieved, ranked what it returns
RetrieveAndRank ==
  /\ search_call = "none"
  /\ \E q \in Queries, k \in 0..MaxTopK, tie_rev \in BOOLEAN, fault \in SearchFaults :
       LET r == retrieve_and_rank_call(index, q, k, tie_rev, fault)
       IN  /\ query' = q
           /\ top_k' = k
           /\ selected_text' = <<>>
           /\ search_call' = "retrieve_and_rank"
           /\ search_fault' = fault
           /\ search_status' = r.status
           /\ results' = r.results
           /\ ranked' = r.ranked
  /\ UNCHANGED <<chunk_vars, index_vars, valid_vars, endpoint_vars, loop_vars, time_vars, service_vars, limiter_vars, cache_vars>>

\* RAGService.process_query: results is the context_chunks it returns
ProcessQuery ==
  /\ search_call = "none"
  /\ \E q \in Queries, k \in 0..MaxTopK, sel \in SelectedTexts,
        tie_rev \in BOOLEAN, fault \in PipelineFaults :
       LET r == process_query_call(index, q, k, sel, tie_rev, fault)
       IN  /\ query' = q
           /\ top_k' = k
           /\ selected_text' = sel
           /\ search_call' = "process_query"
           /\ search_fault' = fault
           /\ search_status' = r.status
           /\ results' = r.results
           /\ ranked' = <<>>
  /\ UNCHANGED <<chunk_vars, index_vars, valid_vars, endpoint_vars, loop_vars, time_vars, service_vars, limiter_vars, cache_vars>>

NextSearch ==
  \/ RetrieveRelevantChunks
  \/ RetrieveAndRank
  \/ ProcessQuery

SpecSearch == InitSearch /\ [][NextSearch]_vars

\* ------------------------------------------------------------------------
\* Properties of retrieval
\* ------------------------------------------------------------------------

\* C8: a search returns at most top_k results and their similarity scores are
\* non-increasing, with or without a selected_text filter.
C8_TopKDescending ==
  search_status = "ok" =>
    /\ Len(results) <= top_k
    /\ \A i \in 1..Len(results), j \in 1..Len(results) :
         i < j => results[i].similarity_score >= results[j].similarity_score

\* a filtered search that cut the candidates down to top_k results of
\* different scores
C8_Witness ==
  /\ search_call = "retrieve_relevant_chunks"
  /\ search_status = "ok"
  /\ selected_text # <<>>
  /\ top_k = 2
  /\ Len(results) = 2
  /\ Len(index) > 2
  /\ results[1].similarity_score > results[2].similarity_score

\* position of the result with the given chunk_id in a result list
PositionOf(rs, id) == CHOOSE i \in 1..Len(rs) : rs[i].chunk_id = id

\* C9: retrieve_and_rank gives every result composite_score =
\* similarity_score and returns the retrieved results, each once, by
\* descending composite_score, results of equal score in retrieval order.
C9_StableRanking ==
  search_call = "retrieve_and_rank" =>
    /\ Len(ranked) = Len(results)
    /\ \A i \in 1..Len(ranked) :
         /\ ranked[i].composite_score = ranked[i].similarity_score
         /\ \E j \in 1..Len(results) : ranked[i] = WithComposite(results[j])
    /\ \A j \in 1..Len(results) :
         \E i \in 1..Len(ranked) : ranked[i].chunk_id = results[j].chunk_id
    /\ \A i \in 1..Len(ranked), j \in 1..Len(ranked) :
         i < j =>
           /\ ranked[i].composite_score >= ranked[j].composite_score
           /\ ranked[i].composite_score = ranked[j].composite_score =>
                PositionOf(results, ranked[i].chunk_id)
                  < PositionOf(results, ranked[j].chunk_id)

\* a ranking of three results of which two have the same score
C9_Witness ==
  /\ search_call = "retrieve_and_rank"
  /\ search_status = "ok"
  /\ Len(ranked) = 3
  /\ \E i \in 1..2 : ranked[i].composite_score = ranked[i + 1].composite_score
  /\ ranked[1].composite_score > ranked[3].composite_score

\* ------------------------------------------------------------------------
\* The validators called on one answer
\* ------------------------------------------------------------------------

\* most sentences in an answer handed to a validator
MaxAnswerAtoms == 2

\* the sentences the answers are made of: the fallback refusal the prompt
\* asks for, a refusal in capitals, an ungrounded statement, a selected-text
\* refusal, a generic statement, a statement about the supporting text and
\* a sentence without a word of more than 3 characters, and an ellipsis
AnswerAtoms ==
  <<
    <<"T", "h", "i", "s", " ", "i", "n", "f", "o", "r", "m", "a", "t", "i",
      "o", "n", " ", "i", "s", " ", "n", "o", "t", " ", "a", "v", "a", "i",
      "l", "a", "b", "l", "e", " ", "i", "n", " ", "t", "h", "e", " ", "b",
      "o", "o", "k", ".">>,
    <<"T", "H", "E", " ", "B", "O", "O", "K", " ", "D", "O", "E", "S", " ",
      "N", "O", "T", " ", "C", "O", "N", "T", "A", "I", "N", " ", "T", "H",
      "A", "T", ".">>,
    <<"T", "h", "e", " ", "s", "k", "y", " ", "i", "s", " ", "b", "l", "u",
      "e", ".">>,
    <<"I", " ", "d", "o", "n", "'", "t", " ", "k", "n", "o", "w", ".">>,
    <<"G", "e", "n", "e", "r", "a", "l", "l", "y", " ", "c", "a", "t",
      "s", " ", "s", "l", "e", "e", "p", " ", "m", "o", "s", "t", " ", "o",
      "f", " ", "t", "h", "e", " ", "d", "a", "y", " ", "a", "n", "d", " ",
      "u", "s", "u", "a", "l", "l", "y", " ", "m", "a", "n", "y", " ", "h",
      "o", "u", "r", "s", " ", "a", "t", " ", "n", "i", "g", "h", "t", ".">>,
    <<"C", "a", "t", "s", " ", "p", "u", "r", "r", " ", "w", "h", "e", "n",
      " ", "t", "h", "e", "y", " ", "f", "e", "e", "l", " ", "h", "a", "p",
      "p", "y", " ", "a", "n", "d", " ", "r", "e", "l", "a", "x", "e", "d",
      " ", "a", "t", " ", "h", "o", "m", "e", ".">>,
    <<"I", "t", " ", "i", "s", " ", "s", "o", ".">>,
    <<".", ".", ".">>
  >>

\* the selected texts: none, a blank one and two passages
Selections ==
  {
    <<>>,
    <<" ", " ">>,
    <<"C", "a", "t", "s", " ", "p", "u", "r", "r", " ", "w", "h", "e", "n",
      " ", "t", "h", "e", "y", " ", "f", "e", "e", "l", " ", "h", "a", "p",
      "p", "y", ".">>,
    <<"T", "h", "e", " ", "b", "o", "o", "k", " ", "i", "s", " ", "b", "l",
      "u", "e", ".">>
  }

\* the contents of the context chunks: a short and a long one
ContextContents ==
  {
    <<"c", "a", "t", "s">>,
    <<"C", "a", "t", "s", " ", "p", "u", "r", "r", " ", "w", "h", "e", "n",
      " ", "t", "h", "e", "y", " ", "f", "e", "e", "l", " ", "h", "a", "p",
      "p", "y", " ", "a", "n", "d", " ", "r", "e", "l", "a", "x", "e", "d",
      " ", "a", "t", " ", "h", "o", "m", "e", " ", "w", "i", "t", "h", " ",
      "p", "e", "o", "p", "l", "e", ".">>
  }

\* the answers: at most MaxAnswerAtoms sentences, joined by a space
Answers ==
  {JoinSpace([i \in 1..Len(f) |-> AnswerAtoms[f[i]]]) :
     f \in UNION {[1..n -> 1..Len(AnswerAtoms)] : n \in 0..MaxAnswerAtoms}}

\* the lists of at most two context chunks
Contexts ==
  {<<>>} \cup {<<c>> : c \in ContextContents}
         \cup {<<c1, c2>> : c1 \in ContextContents, c2 \in ContextContents}

InitValidate ==
  /\ text = <<>>
  /\ max_tokens = 1
  /\ overlap_tokens = 0
  /\ ChunkIdle
  /\ hash_seed = 0
  /\ IndexIdle
  /\ SearchIdle
  /\ ValidIdle
  /\ EndpointIdle
  /\ LoopIdle
  /\ clock = 0
  /\ ServiceIdle
  /\ LimiterIdle
  /\ CacheIdle

CallValidateBookBasedResponse ==
  /\ v_op = "none"
  /\ \E response \in Answers, context_chunks \in Contexts :
       /\ v_op' = "ValidationService.validate_book_based_response"
       /\ v_given' = [response |-> response, supporting |-> context_chunks]
       /\ v_response' = response
       /\ v_context' = context_chunks
       /\ v_selected' = <<>>
       /\ v_status' = "returned"
       /\ verdict' = ValidationService_validate_book_based_response(response, context_chunks)
  /\ UNCHANGED <<chunk_vars, index_vars, search_vars, endpoint_vars, loop_vars, time_vars, service_vars, limiter_vars, cache_vars>>

CallServiceValidateSelectedTextResponse ==
  /\ v_op = "none"
  /\ \E response \in Answers, sel \in Selections :
       /\ v_op' = "ValidationService.validate_selected_text_response"
       /\ v_given' = [response |-> response, supporting |-> sel]
       /\ v_response' = response
       /\ v_selected' = sel
       /\ v_context' = <<>>
       /\ IF ServiceZeroDivisions(response, sel) # {}
          THEN v_status' = "raised" /\ verdict' = <<>>
          ELSE /\ v_status' = "returned"
               /\ verdict' = ValidationService_validate_selected_text_response(response, sel)
  /\ UNCHANGED <<chunk_vars, index_vars, search_vars, endpoint_vars, loop_vars, time_vars, service_vars, limiter_vars, cache_vars>>

\* the validator chat_endpoint and handle_selected_text_question call
CallValidateSelectedTextResponse ==
  /\ v_op = "none"
  /\ \E response \in Answers, sel \in Selections :
       /\ v_op' = "validate_selected_text_response"
       /\ v_given' = [response |-> response, supporting |-> sel]
       /\ v_response' = response
       /\ v_selected' = sel
       /\ v_context' = <<>>
       /\ IF ZeroDivisions(response, sel) # {}
          THEN v_status' = "raised" /\ verdict' = <<>>
          ELSE /\ v_status' = "returned"
               /\ verdict' = validate_selected_text_response(response, sel)
  /\ UNCHANGED <<chunk_vars, index_vars, search_vars, endpoint_vars, loop_vars, time_vars, service_vars, limiter_vars, cache_vars>>

NextValidate ==
  \/ CallValidateBookBasedResponse
  \/ CallServiceValidateSelectedTextResponse
  \/ CallValidateSelectedTextResponse

SpecValidate == InitValidate /\ [][NextValidate]_vars

\* ------------------------------------------------------------------------
\* Properties of the validators
\* ------------------------------------------------------------------------

\* the list of problems of a verdict: issues in the dicts of
\* ValidationService, errors in those of utils.validation
ProblemsOf(v) == IF "errors" \in DOMAIN v THEN v.errors ELSE v.issues

\* C10: whichever validator is called, an answer that contains one of the
\* "information not available" phrases, in any letter case, gets the verdict
\* is_valid = true with confidence 0.9 and no errors, whatever the
\* supporting text.
C10_RefusalShortCircuit ==
  (v_op # "none" /\ has_absence_indicator(v_response)) =>
    /\ verdict.is_valid = TRUE
    /\ verdict.confidence = Fraction(9, 10)
    /\ ProblemsOf(verdict) = <<>>

\* C10 holds of the two validators of ValidationService, which test for the
\* phrases first
C10_ServiceValidators ==
  (/\ v_op \in {"ValidationService.validate_book_based_response",
               "ValidationService.validate_selected_text_response"}
   /\ has_absence_indicator(v_response)) =>
    /\ verdict.is_valid = TRUE
    /\ verdict.confidence = Fraction(9, 10)
    /\ ProblemsOf(verdict) = <<>>

\* the generic_indicators patterns re.search finds in the lowercased answer
MatchedGeneric(response) ==
  {i \in 1..Len(generic_indicators) :
     Contains(Lower(response), generic_indicators[i])}

\* the condition of the sparse-context branch (lines 57 and 64)
SparseBranchTaken(response, context_chunks) ==
  /\ context_chunks # <<>>
  /\ Len(Strip(JoinSpace(context_chunks))) < 50
  /\ Len(Strip(response)) > 100

\* every matched pattern has its issue in the verdict
RecordsEveryMatch(v, response) ==
  \A i \in MatchedGeneric(response) :
    \E k \in 1..Len(v.issues) :
      v.issues[k] = <<"Response contains generic knowledge indicator", generic_indicators[i]>>

\* C11 as stated: every non-refusal answer that matches a generic pattern
\* gets is_valid = false, confidence 0.3 and an error for each matched
\* pattern from validate_book_based_response.
C11_GenericAlwaysThreeTenths ==
  (/\ v_op = "ValidationService.validate_book_based_response"
   /\ ~has_absence_indicator(v_response)
   /\ MatchedGeneric(v_response) # {}) =>
    /\ verdict.is_valid = FALSE
    /\ verdict.confidence = Fraction(3, 10)
    /\ RecordsEveryMatch(verdict, v_response)

\* C11: every non-refusal answer that matches a generic pattern gets
\* is_valid = false and an error for each matched pattern from
\* validate_book_based_response; the confidence is 0.3, unless the answer is
\* longer than 100 characters and the non-empty chunk list has less than 50
\* characters of text, in which case the sparse-context branch lowers it to
\* 0.2.
C11_GenericDetection ==
  (/\ v_op = "ValidationService.validate_book_based_response"
   /\ ~has_absence_indicator(v_response)
   /\ MatchedGeneric(v_response) # {}) =>
    /\ verdict.is_valid = FALSE
    /\ verdict.confidence = IF SparseBranchTaken(v_response, v_context)
                            THEN Fraction(2, 10)
                            ELSE Fraction(3, 10)
    /\ RecordsEveryMatch(verdict, v_response)

\* a generic answer matching several patterns, validated against chunks
C11_Witness ==
  /\ v_op = "ValidationService.validate_book_based_response"
  /\ ~has_absence_indicator(v_response)
  /\ Cardinality(MatchedGeneric(v_response)) >= 2
  /\ v_context # <<>>
  /\ verdict.is_valid = FALSE
  /\ verdict.confidence = Fraction(3, 10)
  /\ Len(verdict.issues) >= 2

\* C12: for every non-refusal answer longer than 100 characters and every
\* list of supporting chunks, the empty list included, whose combined text
\* is shorter than 50 characters, validate_book_based_response returns
\* is_valid = false with confidence 0.2.
C12_SparseContextFlag ==
  (/\ v_op = "ValidationService.validate_book_based_response"
   /\ ~has_absence_indicator(v_response)
   /\ Len(v_response) > 100
   /\ Len(JoinSpace(v_context)) < 50) =>
    /\ verdict.is_valid = FALSE
    /\ verdict.confidence = Fraction(2, 10)

\* the flag is raised whenever the chunk list is not empty
C12_NonEmptyContextFlag ==
  (/\ v_op = "ValidationService.validate_book_based_response"
   /\ ~has_absence_indicator(v_response)
   /\ Len(v_response) > 100
   /\ v_context # <<>>
   /\ Len(JoinSpace(v_context)) < 50) =>
    /\ verdict.is_valid = FALSE
    /\ verdict.confidence = Fraction(2, 10)

\* any(indicator in response_lower for indicator in external_indicators)
\* (utils/validation.py line 209)
HasExternalIndicator(response) ==
  \E i \in 1..Len(external_indicators) :
    Contains(Lower(response), external_indicators[i])

\* the sentences of the answer that have words of more than 3 characters of
\* which less than 30% occur among the selected text's words of more than 3
\* characters
UnsupportedSentences(response, sel) ==
  LET sentences == response_sentences(response)
  IN  {i \in 1..Len(sentences) :
         LET own == LongWords(Lower(sentences[i]))
             shared == own \cap LongWords(Lower(sel))
         IN  own # {} /\ Cardinality(shared) * 10 < 3 * Cardinality(own)}

\* the verdict is a failure whose error cites invalid/total
FailsCitingFraction(v, invalid, total) ==
  /\ v.is_valid = FALSE
  /\ v.errors = <<<<"Response contains information not found in selected text", invalid, total>>>>

PassesSentenceCheck ==
  /\ v_op = "validate_selected_text_response"
  /\ v_response # <<>>
  /\ v_selected # <<>>
  /\ ~HasExternalIndicator(v_response)
  /\ verdict.is_valid = TRUE

\* C14: in validate_selected_text_response, when the sentence check does
\* not fail the verdict and no refusal phrase applies, confidence is
\* min(1, valid sentences / total sentences), and every sentence of the
\* answer is counted as valid or as invalid: valid_sentences_count +
\* invalid_sentences_count = total_sentences.
C14_ConfidenceFormula ==
  PassesSentenceCheck =>
    /\ verdict.total_sentences = Len(response_sentences(v_response))
    /\ verdict.valid_sentences_count + verdict.invalid_sentences_count
         = verdict.total_sentences
    /\ verdict.total_sentences > 0 =>
         verdict.confidence =
           Fraction(Min(verdict.valid_sentences_count, verdict.total_sentences),
                    verdict.total_sentences)

\* the confidence is the ratio of the sentences counted valid, which are
\* never more than the total
C14_ConfidenceIsValidRatio ==
  PassesSentenceCheck =>
    /\ verdict.total_sentences = Len(response_sentences(v_response))
    /\ verdict.valid_sentences_count + verdict.invalid_sentences_count
         <= verdict.total_sentences
    /\ verdict.total_sentences > 0 =>
         verdict.confidence =
           Fraction(Min(verdict.valid_sentences_count, verdict.total_sentences),
                    verdict.total_sentences)

\* C15: with a selected text that is not empty, an answer that contains one
\* of the explicit-refusal phrases of selected-text validation, in any
\* letter case, gets is_valid = true, confidence 1.0 and no errors from
\* validate_selected_text_response, whatever the sentence check computed.
C15_ExplicitRefusalValid ==
  (/\ v_op = "validate_selected_text_response"
   /\ v_selected # <<>>
   /\ HasExternalIndicator(v_response)) =>
    /\ verdict.is_valid = TRUE
    /\ verdict.confidence = Fraction(1, 1)
    /\ verdict.errors = <<>>

\* an explicit refusal of which more than half of the sentences are
\* unsupported by the selected text, and which passes
C15_Witness ==
  /\ v_op = "validate_selected_text_response"
  /\ v_selected # <<>>
  /\ HasExternalIndicator(v_response)
  /\ Cardinality(UnsupportedSentences(v_response, v_selected)) * 2
       > Len(response_sentences(v_response))
  /\ verdict.is_valid = TRUE
  /\ verdict.confidence = Fraction(1, 1)

\* C16: in selected-text validation, by either validator, an empty selected
\* text with an answer that is not empty, of any length and content, gives
\* the verdict is_valid = false with confidence 0.0.
C16_EmptySelectionHardFailure ==
  (/\ v_op \in {"validate_selected_text_response",
                "ValidationService.validate_selected_text_response"}
   /\ v_selected = <<>>
   /\ v_response # <<>>) =>
    /\ verdict.is_valid = FALSE
    /\ verdict.confidence = Fraction(0, 1)

\* the validator of utils.validation fails every such call
C16_UtilsEmptySelection ==
  (/\ v_op = "validate_selected_text_response"
   /\ v_selected = <<>>
   /\ v_response # <<>>) =>
    /\ verdict.is_valid = FALSE
    /\ verdict.confidence = Fraction(0, 1)
    /\ verdict.errors = <<"Selected text cannot be empty for validation">>

\* C17: the verdict of every validator, for every answer and supporting
\* text, has a boolean is_valid, a list of errors (issues in the verdicts of
\* ValidationService) and a confidence between 0 and 1 inclusive.
C17_VerdictShape ==
  v_op # "none" =>
    /\ verdict.is_valid \in BOOLEAN
    /\ DOMAIN ProblemsOf(verdict) = 1..Len(ProblemsOf(verdict))
    /\ verdict.confidence.d > 0
    /\ 0 <= verdict.confidence.n
    /\ verdict.confidence.n <= verdict.confidence.d

\* a verdict with two errors and a confidence strictly between 0 and 1
C17_Witness ==
  /\ v_op = "ValidationService.validate_book_based_response"
  /\ verdict.is_valid = FALSE
  /\ Len(verdict.issues) >= 2
  /\ verdict.confidence = Fraction(2, 10)

\* C18: every call of a validator, with any answer and any supporting text
\* or chunk list, empty ones included, returns a verdict with a boolean
\* is_valid instead of raising, and leaves the answer and the supporting
\* text or chunks as they were passed.
C18_NeverRaises ==
  v_op # "none" =>
    /\ v_status = "returned"
    /\ verdict.is_valid \in BOOLEAN
    /\ v_response = v_given.response
    /\ v_given.supporting =
         (IF v_op = "ValidationService.validate_book_based_response"
          THEN v_context ELSE v_selected)

\* an answer without any sentence, validated against a selected text, and
\* a verdict returned for it
C18_Witness ==
  /\ v_op = "validate_selected_text_response"
  /\ v_response # <<>>
  /\ v_selected # <<>>
  /\ response_sentences(v_response) = <<>>
  /\ v_status = "returned"
  /\ verdict.confidence = Fraction(0, 1)

\* ------------------------------------------------------------------------
\* Properties of failures during a search
\* ------------------------------------------------------------------------

\* C19: when the embedding provider or the vector engine fails during a
\* search, the call of search_chunks / retrieve_relevant_chunks, of
\* retrieve_and_rank and of process_query ends in an error; none of them
\* returns a result list, empty or partial, as if the search had succeeded.
C19_SearchFailurePropagates ==
  (search_call # "none" /\ search_fault \in {"embedding", "engine"}) =>
    search_status = "error"

\* the engine fails while the pipeline searches a collection that holds
\* points, and the pipeline call ends in an error
C19_Witness ==
  /\ search_call = "process_query"
  /\ search_fault = "engine"
  /\ index # <<>>
  /\ search_status = "error"

\* ------------------------------------------------------------------------
\* The endpoints (api/chat.py, api/search.py, api/selected_text.py) and the
\* request validators (utils/validation.py)
\* ------------------------------------------------------------------------

\* the length limits of the request validators
MaxMessageChars == 10000

MaxQueryChars == 1000

MaxSelectedChars == 50000

MaxRequestTopK == 20

\* a text of a request, by what the validators look at: whether it is given
\* (not None), its length, and whether it is whitespace only
NoText == [given |-> FALSE, chars |-> 0, blank |-> TRUE]

TextSizes ==
  {0, 1, MaxQueryChars, MaxQueryChars + 1, MaxMessageChars, MaxMessageChars + 1,
   MaxSelectedChars, MaxSelectedChars + 1}

RequestTexts ==
  {t \in [given : {TRUE}, chars : TextSizes, blank : BOOLEAN] :
     t.chars = 0 => t.blank}

\* the session_id of a request: none, the id of a stored session, a
\* well-formed id of no stored session, or a string that is not a UUID
SessionIds == {"absent", "known", "unknown", "malformed"}

TopKs == {0, 1, MaxRequestTopK, MaxRequestTopK + 1}

\* not v or len(v.strip()) == 0
IsEmptyOrBlank(v) == v.chars = 0 \/ v.blank

\* the truth value of an optional str
Truthy(v) == v.given /\ v.chars > 0

\* sanitize_input (lines 68-84): a whitespace-only text becomes the empty
\* string; the length of any other text is kept as it is
sanitize_input(v) ==
  IF ~Truthy(v) THEN v
  ELSE IF v.blank THEN [given |-> TRUE, chars |-> 0, blank |-> TRUE]
  ELSE v

\* ChatRequestValidator raises (lines 12-37)
ChatRequestValidator_rejects(message, session_id, sel) ==
  \/ IsEmptyOrBlank(message)
  \/ message.chars > MaxMessageChars
  \/ session_id = "malformed"
  \/ (sel.given /\ sel.chars > MaxSelectedChars)

\* SearchRequestValidator raises (lines 44-66)
SearchRequestValidator_rejects(q, k, sel) ==
  \/ IsEmptyOrBlank(q)
  \/ q.chars > MaxQueryChars
  \/ k < 1
  \/ k > MaxRequestTopK
  \/ (sel.given /\ sel.chars > MaxSelectedChars)

\* chat_endpoint (api/chat.py lines 39-189) when no external call fails:
\* the status it answers with and the calls it makes
chat_endpoint(request, cache_hit) ==
  IF ChatRequestValidator_rejects(request.text, request.session_id, request.selected_text)
  THEN [status |-> 422, calls |-> <<>>]
  ELSE IF cache_hit
  THEN [status |-> 200, calls |-> <<"cache.get">>]
  ELSE LET sel == sanitize_input(request.selected_text)
           session_calls ==
             IF request.session_id = "known" THEN <<"db.get_session">>
             ELSE IF request.session_id = "unknown"
                  THEN <<"db.get_session", "db.create_session">>
                  ELSE <<"db.create_session">>
           retrieval == IF Truthy(sel) THEN <<>>
                        ELSE <<"embedding.embed", "index.search">>
       IN  [status |-> 200,
            calls |-> <<"cache.get">> \o session_calls \o <<"db.create_user_query">>
                      \o retrieval
                      \o <<"llm.generate", "db.create_response", "cache.put">>]

\* search_endpoint of api/chat.py (lines 191-245)
chat_search_endpoint(request, cache_hit) ==
  IF SearchRequestValidator_rejects(request.text, request.top_k, request.selected_text)
  THEN [status |-> 422, calls |-> <<>>]
  ELSE IF cache_hit
  THEN [status |-> 200, calls |-> <<"cache.get">>]
  ELSE [status |-> 200,
        calls |-> <<"cache.get", "embedding.embed", "index.search", "cache.put">>]

\* handle_selected_text_question (api/selected_text.py lines 25-84): the
\* HTTPException(404) of line 38 is raised inside the try and caught by
\* the handler of line 82, which answers 500
handle_selected_text_question(request) ==
  IF request.session_id = "malformed"
  THEN [status |-> 500, calls |-> <<>>]
  ELSE IF request.session_id = "unknown"
  THEN [status |-> 500, calls |-> <<"db.get_session">>]
  ELSE [status |-> 200,
        calls |-> <<"db.get_session", "db.create_user_query", "llm.generate",
                    "db.create_response">>]

InitEndpoint ==
  /\ text = <<>>
  /\ max_tokens = 1
  /\ overlap_tokens = 0
  /\ ChunkIdle
  /\ hash_seed = 0
  /\ IndexIdle
  /\ SearchIdle
  /\ ValidIdle
  /\ EndpointIdle
  /\ LoopIdle
  /\ clock = 0
  /\ ServiceIdle
  /\ LimiterIdle
  /\ CacheIdle

\* POST /api/chat
ChatEndpoint ==
  /\ ep_name = "none"
  /\ \E message \in RequestTexts, sel \in RequestTexts \cup {NoText},
        session_id \in SessionIds, cache_hit \in BOOLEAN :
       LET request == [text |-> message, selected_text |-> sel,
                       session_id |-> session_id, top_k |-> 5]
           r == chat_endpoint(request, cache_hit)
       IN  /\ ep_name' = "chat.chat_endpoint"
           /\ ep_request' = request
           /\ ep_calls' = r.calls
           /\ ep_status' = r.status
  /\ UNCHANGED <<chunk_vars, index_vars, search_vars, valid_vars, loop_vars, time_vars, service_vars, limiter_vars, cache_vars>>

\* POST /api/search: main.py includes the router of api/chat.py before that
\* of api/search.py, so the handler of api/chat.py serves the path
ChatSearchEndpoint ==
  /\ ep_name = "none"
  /\ \E q \in RequestTexts, sel \in RequestTexts \cup {NoText},
        k \in TopKs, cache_hit \in BOOLEAN :
       LET request == [text |-> q, selected_text |-> sel,
                       session_id |-> "absent", top_k |-> k]
           r == chat_search_endpoint(request, cache_hit)
       IN  /\ ep_name' = "chat.search_endpoint"
           /\ ep_request' = request
           /\ ep_calls' = r.calls
           /\ ep_status' = r.status
  /\ UNCHANGED <<chunk_vars, index_vars, search_vars, valid_vars, loop_vars, time_vars, service_vars, limiter_vars, cache_vars>>

\* POST /api/selected-text-question; the body must carry all three fields
SelectedTextQuestion ==
  /\ ep_name = "none"
  /\ \E question \in RequestTexts, sel \in RequestTexts,
        session_id \in SessionIds \ {"absent"} :
       LET request == [text |-> question, selected_text |-> sel,
                       session_id |-> session_id, top_k |-> 0]
           r == handle_selected_text_question(request)
       IN  /\ ep_name' = "selected_text.handle_selected_text_question"
           /\ ep_request' = request
           /\ ep_calls' = r.calls
           /\ ep_status' = r.status
  /\ UNCHANGED <<chunk_vars, index_vars, search_vars, valid_vars, loop_vars, time_vars, service_vars, limiter_vars, cache_vars>>

NextEndpoint ==
  \/ ChatEndpoint
  \/ ChatSearchEndpoint
  \/ SelectedTextQuestion

SpecEndpoint == InitEndpoint /\ [][NextEndpoint]_vars

\* ------------------------------------------------------------------------
\* Properties of the endpoints
\* ------------------------------------------------------------------------

\* the request is one the endpoint has to reject: its message, query or
\* question is empty, whitespace only or longer than the endpoint's limit,
\* or its selected text is longer than MaxSelectedChars
InputToReject ==
  LET limit == IF ep_name = "chat.search_endpoint"
               THEN MaxQueryChars ELSE MaxMessageChars
  IN  \/ IsEmptyOrBlank(ep_request.text)
      \/ ep_request.text.chars > limit
      \/ (ep_request.selected_text.given
          /\ ep_request.selected_text.chars > MaxSelectedChars)

\* C20: in every endpoint that calls an external provider, a request with
\* an empty, whitespace-only or oversized input is rejected and no cache
\* lookup, database call, embedding, index search or generation is made
\* for it.
C20_RejectedBeforeExternalCalls ==
  (ep_name # "none" /\ InputToReject) =>
    /\ ep_status # 200
    /\ ep_calls = <<>>

\* the two handlers of api/chat.py validate the request first
C20_ChatHandlersRejectFirst ==
  (ep_name \in {"chat.chat_endpoint", "chat.search_endpoint"} /\ InputToReject) =>
    /\ ep_status = 422
    /\ ep_calls = <<>>

\* ------------------------------------------------------------------------
\* LRUCache (utils/cache.py)
\* ------------------------------------------------------------------------

\* position of key in the OrderedDict, 0 when it is not a key of it
KeyIndex(entries, key) ==
  IF \E i \in 1..Len(entries) : entries[i].key = key
  THEN CHOOSE i \in 1..Len(entries) : entries[i].key = key
  ELSE 0

\* the entries without the i-th
Without(entries, i) ==
  SubSeq(entries, 1, i - 1) \o SubSeq(entries, i + 1, Len(entries))

\* LRUCache.get (lines 15-30): value is <<v>> for a returned v and <<>> for
\* None; an entry is returned and moved to the end while it is younger than
\* ttl, and deleted otherwise
LRUCache_get(c, key, now) ==
  LET i == KeyIndex(c.cache, key)
  IN  IF i = 0
      THEN [cache |-> c, hit |-> FALSE, value |-> <<>>]
      ELSE IF now - c.cache[i].timestamp < c.ttl
      THEN [cache |-> [c EXCEPT !.cache = Append(Without(@, i), c.cache[i])],
            hit |-> TRUE, value |-> <<c.cache[i].value>>]
      ELSE [cache |-> [c EXCEPT !.cache = Without(@, i)],
            hit |-> FALSE, value |-> <<>>]

\* LRUCache.put (lines 32-45): when the cache holds max_size entries or
\* more, popitem(last=False) removes the first of them, whatever the key
\* is; the assignment then replaces or adds the entry of the key, and
\* move_to_end makes it the last.  (max_size is at least 1 in every
\* instance, so the cache popitem is called on is not empty.)
LRUCache_put(c, key, value, now) ==
  LET kept == IF Len(c.cache) >= c.max_size THEN Tail(c.cache) ELSE c.cache
      i == KeyIndex(kept, key)
      item == [key |-> key, value |-> value, timestamp |-> now]
  IN  [c EXCEPT !.cache = IF i = 0 THEN Append(kept, item)
                          ELSE Append(Without(kept, i), item)]

\* LRUCache.delete (lines 47-52)
LRUCache_delete(c, key) ==
  LET i == KeyIndex(c.cache, key)
  IN  IF i = 0 THEN c ELSE [c EXCEPT !.cache = Without(@, i)]

\* LRUCache.clear (lines 54-58)
LRUCache_clear(c) == [c EXCEPT !.cache = <<>>]

\* get_cache_key (lines 84-94): the md5 digest of the JSON text of the
\* arguments, which tells apart any two argument lists
get_cache_key(message, sel) == <<message, sel>>

\* ------------------------------------------------------------------------
\* DatabaseService (services/database_service.py); a row's primary key is a
\* fresh uuid4, here the next unused number of its table
\* ------------------------------------------------------------------------

create_session(d) ==
  LET id == Cardinality(d.chat_sessions) + 1
  IN  [db |-> [d EXCEPT !.chat_sessions = @ \cup {id}], session_id |-> id]

\* get_session returns a row (TRUE) or None (FALSE)
get_session(d, session_id) == session_id \in d.chat_sessions

create_user_query(d, session_id) ==
  LET id == Cardinality(d.user_queries) + 1
  IN  [db |-> [d EXCEPT !.user_queries =
                 @ \cup {[query_id |-> id, session_id |-> session_id]}],
       query_id |-> id]

create_response(d, query_id, content, source_chunks, validation_result) ==
  LET id == Cardinality(d.responses) + 1
  IN  [db |-> [d EXCEPT !.responses =
                 @ \cup {[response_id |-> id, query_id |-> query_id,
                          content |-> content, source_chunks |-> source_chunks,
                          validation_result |-> validation_result]}],
       response_id |-> id]

\* ------------------------------------------------------------------------
\* validate_api_response (utils/validation.py lines 120-140)
\* ------------------------------------------------------------------------

MaxResponseChars == 100000

SensitiveKeywords ==
  <<
    <<"p", "a", "s", "s", "w", "o", "r", "d">>,
    <<"s", "e", "c", "r", "e", "t">>,
    <<"a", "p", "i", "_", "k", "e", "y">>,
    <<"t", "o", "k", "e", "n">>,
    <<"c", "r", "e", "d", "e", "n", "t", "i", "a", "l">>
  >>

\* the response is a str here: generate_response returns the content of the
\* provider's message
validate_api_response(response) ==
  LET too_large == Len(response) > MaxResponseChars
      sensitive == /\ response # <<>>
                   /\ \E k \in 1..Len(SensitiveKeywords) :
                        Contains(Lower(response), SensitiveKeywords[k])
      errors == (IF too_large THEN <<"Response too large (max 100KB)">> ELSE <<>>)
                \o (IF sensitive
                    THEN <<"Response may contain sensitive information">>
                    ELSE <<>>)
  IN  [is_valid |-> errors = <<>>, errors |-> errors]

\* ------------------------------------------------------------------------
\* The service: chat_endpoint and handle_selected_text_question with the
\* database, the response cache, the retrieval and the LLM
\* ------------------------------------------------------------------------

\* most requests handled in one behaviour
MaxHandled == 2

Clients == {"A", "B"}

\* a message and a whitespace-only message
Messages == {<<"h", "i">>, <<" ">>}

\* the passage a client selected
SelectedPassage ==
  <<"C", "a", "t", "s", " ", "p", "u", "r", "r", " ", "w", "h", "e", "n",
    " ", "t", "h", "e", "y", " ", "f", "e", "e", "l", " ", "h", "a", "p",
    "p", "y", ".">>

\* selected_text of a chat request: None or the passage
OptionalSelections ==
  {[given |-> FALSE, value |-> <<>>], [given |-> TRUE, value |-> SelectedPassage]}

\* selected_text of a selected-text question: a str, possibly empty
GivenSelections ==
  {[given |-> TRUE, value |-> <<>>], [given |-> TRUE, value |-> SelectedPassage]}

\* session_id of a request: 0 stands for None, MalformedSessionId for a
\* string that is not a UUID, UnknownSessionId for a UUID of no session,
\* 1, 2, ... for the ids the database gave out
MalformedSessionId == 0 - 1

UnknownSessionId == 999

\* the statement the handlers and the prompt use for "not available"
FallbackText == AnswerAtoms[1]

\* an answer the API-response validation rejects
SensitiveAnswer ==
  <<"T", "h", "e", " ", "t", "o", "k", "e", "n", " ", "i", "s", " ", "b",
    "l", "u", "e", ".">>

\* what the LLM may answer: a statement about the passage, a statement
\* about nothing in it, and the sensitive one
GeneratedAnswers == {AnswerAtoms[6], AnswerAtoms[3], SensitiveAnswer}

\* the chunk_ids retrieve_relevant_chunks returns
Retrievals == {<<"c1", "c2">>}

\* the external calls that may raise
Faults ==
  {"db.get_session", "db.create_session", "db.create_user_query",
   "retrieval", "llm.generate", "db.create_response"}

\* what the world outside the handler does during one request: which call
\* raises, what the LLM answers and what the retrieval returns
Environments ==
  {[fault |-> "none", answer |-> a, retrieved |-> r] :
     a \in GeneratedAnswers, r \in Retrievals}
  \cup {[fault |-> f, answer |-> AnswerAtoms[6], retrieved |-> <<"c1", "c2">>] :
          f \in Faults}

\* utils.validation.validate_api_response on each text it is called on
ApiVerdict == [a \in GeneratedAnswers |-> validate_api_response(a)]

\* utils.validation.validate_selected_text_response on each pair it is
\* called on
GroundingVerdict ==
  [a \in GeneratedAnswers \cup {FallbackText} |->
     [s \in {<<>>, SelectedPassage} |-> validate_selected_text_response(a, s)]]

\* the validators of utils.validation the handlers import (api/chat.py line
\* 11, api/selected_text.py line 11)
Validators == [api_response |-> ApiVerdict, selected_text_response |-> GroundingVerdict]

\* a str as the request validators see it
AsRequestText(s) == [given |-> TRUE, chars |-> Len(s), blank |-> Strip(s) = <<>>]

AsOptionalText(sel) == IF sel.given THEN AsRequestText(sel.value) ELSE NoText

\* the session_id as validate_session_id and the database see it
SessionKind(d, session_id) ==
  IF session_id = 0 THEN "absent"
  ELSE IF session_id = MalformedSessionId THEN "malformed"
  ELSE IF get_session(d, session_id) THEN "known"
  ELSE "unknown"

\* sanitize_input (lines 68-84) on a str without control characters
sanitize_text(s) == IF s = <<>> THEN s ELSE Strip(s)

\* validate_selected_text (lines 30-37)
ValidatedSelection(sel) ==
  IF sel.given /\ sel.value # <<>>
  THEN [given |-> TRUE, value |-> sanitize_text(sel.value)]
  ELSE sel

\* what a handler leaves behind: the exchange, the database and the cache
Answered(ex, d, c) == [exchange |-> ex, db |-> d, cache |-> c]

\* the handler's except clause answers 500 after the calls made so far
Failed(ex, calls, d, c) ==
  Answered([ex EXCEPT !.status = 500, !.calls = calls], d, c)

\* the session of the request taken on trust, without a look at the table
SessionForTrusting(d, session_id) ==
  IF session_id # 0
  THEN [db |-> d, session_id |-> session_id]
  ELSE create_session(d)

\* the session chat_endpoint records the query under (lines 70-78): the
\* one of the request when it is stored, a new one otherwise
SessionFor(d, session_id) ==
  IF session_id # 0 /\ get_session(d, session_id)
  THEN [db |-> d, session_id |-> session_id]
  ELSE create_session(d)

\* chat_endpoint (api/chat.py lines 39-189) with its effects, for a request
\* of a client at time now in an environment env
chat_endpoint_exchange(client, request, d, c, now, env, validate) ==
  LET ex0 == [NoExchange EXCEPT !.handler = "chat.chat_endpoint",
                                !.client = client, !.request = request,
                                !.sessions_before = d.chat_sessions]
  IN
  IF ChatRequestValidator_rejects(AsRequestText(request.message),
                                  SessionKind(d, request.session_id),
                                  AsOptionalText(request.selected_text))
  THEN Answered([ex0 EXCEPT !.status = 422], d, c)
  ELSE
  LET message == sanitize_text(request.message)
      sel == ValidatedSelection(request.selected_text)
      cache_key == get_cache_key(message, sel)
      got == LRUCache_get(c, cache_key, now)
  IN
  IF got.hit
  THEN Answered([ex0 EXCEPT !.status = 200, !.calls = <<"cache.get">>,
                            !.cache_hit = TRUE, !.delivered = got.value[1]],
                d, got.cache)
  ELSE
  LET c1 == got.cache
      lookup == request.session_id # 0
      found == lookup /\ get_session(d, request.session_id)
      calls_s == <<"cache.get">>
                 \o (IF lookup THEN <<"db.get_session">> ELSE <<>>)
                 \o (IF found THEN <<>> ELSE <<"db.create_session">>)
  IN
  IF lookup /\ env.fault = "db.get_session"
  THEN Failed(ex0, <<"cache.get", "db.get_session">>, d, c1)
  ELSE IF ~found /\ env.fault = "db.create_session"
  THEN Failed(ex0, calls_s, d, c1)
  ELSE
  LET session == SessionFor(d, request.session_id)
      ex1 == [ex0 EXCEPT !.session_id = session.session_id]
      calls_q == Append(calls_s, "db.create_user_query")
  IN
  IF env.fault = "db.create_user_query"
  THEN Failed(ex1, calls_q, session.db, c1)
  ELSE
  LET user_query == create_user_query(session.db, session.session_id)
      by_selection == sel.given /\ sel.value # <<>>
      relevant_chunks == IF by_selection THEN <<"selected_text">> ELSE env.retrieved
      ex2 == [ex1 EXCEPT !.query_id = user_query.query_id]
      calls_r == IF by_selection THEN calls_q
                 ELSE calls_q \o <<"embedding.embed", "index.search">>
      calls_g == Append(calls_r, "llm.generate")
  IN
  IF ~by_selection /\ env.fault = "retrieval"
  THEN Failed(ex2, Append(calls_q, "embedding.embed"), user_query.db, c1)
  ELSE IF env.fault = "llm.generate"
  THEN Failed([ex2 EXCEPT !.retrieved = relevant_chunks,
                          !.generated = [called |-> TRUE, ok |-> FALSE, text |-> <<>>]],
              calls_g, user_query.db, c1)
  ELSE
  LET validation_result == validate.api_response[env.answer]
      response_text == IF validation_result.is_valid THEN env.answer
                       ELSE FallbackText
      final_validation_result ==
        [api_validation |-> <<validation_result>>,
         selected_text_validation |->
           IF by_selection THEN <<validate.selected_text_response[response_text][sel.value]>>
           ELSE <<>>]
      calls_v == calls_g \o <<"validate_api_response">>
                 \o (IF by_selection THEN <<"validate_selected_text_response">>
                     ELSE <<>>)
                 \o <<"db.create_response">>
      ex3 == [ex2 EXCEPT !.retrieved = relevant_chunks,
                         !.generated = [called |-> TRUE, ok |-> TRUE,
                                        text |-> env.answer],
                         !.verdicts = final_validation_result]
  IN
  IF env.fault = "db.create_response"
  THEN Failed(ex3, calls_v, user_query.db, c1)
  ELSE
  LET response_record == create_response(user_query.db, user_query.query_id,
                                         response_text, relevant_chunks,
                                         final_validation_result)
      response_obj == [given |-> TRUE, response |-> response_text,
                       session_id |-> session.session_id,
                       sources |-> relevant_chunks]
  IN  Answered([ex3 EXCEPT !.status = 200,
                           !.calls = Append(calls_v, "cache.put"),
                           !.response_id = response_record.response_id,
                           !.delivered = response_obj],
               response_record.db,
               LRUCache_put(c1, cache_key, response_obj, now))

\* handle_selected_text_question (api/selected_text.py lines 25-84) with
\* its effects; it reads the request as it came and does not use the cache
selected_text_exchange(client, request, d, c, env, validate) ==
  LET ex0 == [NoExchange EXCEPT !.handler = "selected_text.handle_selected_text_question",
                                !.client = client, !.request = request,
                                !.sessions_before = d.chat_sessions]
  IN
  IF request.session_id = MalformedSessionId
  THEN Failed(ex0, <<>>, d, c)
  ELSE IF env.fault = "db.get_session" \/ ~get_session(d, request.session_id)
  THEN Failed(ex0, <<"db.get_session">>, d, c)
  ELSE
  LET ex1 == [ex0 EXCEPT !.session_id = request.session_id]
      calls_q == <<"db.get_session", "db.create_user_query">>
  IN
  IF env.fault = "db.create_user_query"
  THEN Failed(ex1, calls_q, d, c)
  ELSE
  LET user_query == create_user_query(d, request.session_id)
      ex2 == [ex1 EXCEPT !.query_id = user_query.query_id]
      calls_g == Append(calls_q, "llm.generate")
  IN
  IF env.fault = "llm.generate"
  THEN Failed([ex2 EXCEPT !.generated = [called |-> TRUE, ok |-> FALSE, text |-> <<>>]],
              calls_g, user_query.db, c)
  ELSE
  LET response_text == env.answer
      validation_result == validate.selected_text_response[response_text][request.selected_text.value]
      stored == [api_validation |-> <<>>,
                 selected_text_validation |-> <<validation_result>>]
      calls_v == calls_g \o <<"validate_selected_text_response", "db.create_response">>
      ex3 == [ex2 EXCEPT !.generated = [called |-> TRUE, ok |-> TRUE,
                                        text |-> response_text],
                         !.verdicts = stored]
  IN
  IF env.fault = "db.create_response"
  THEN Failed(ex3, calls_v, user_query.db, c)
  ELSE
  LET response_record == create_response(user_query.db, user_query.query_id,
                                         response_text, <<>>, stored)
  IN  Answered([ex3 EXCEPT !.status = 200, !.calls = calls_v,
                           !.response_id = response_record.response_id,
                           !.delivered = [given |-> TRUE, response |-> response_text,
                                          session_id |-> request.session_id,
                                          sources |-> <<>>]],
               response_record.db, c)

InitService ==
  /\ text = <<>>
  /\ max_tokens = 1
  /\ overlap_tokens = 0
  /\ ChunkIdle
  /\ hash_seed = 0
  /\ IndexIdle
  /\ SearchIdle
  /\ ValidIdle
  /\ EndpointIdle
  /\ LoopIdle
  /\ clock = 0
  /\ ServiceIdle
  /\ LimiterIdle
  /\ CacheIdle

\* the session ids a client may send: none, a malformed one, one of no
\* session, or one of the sessions created for its own requests
SessionChoices(client) ==
  {0, MalformedSessionId, UnknownSessionId}
  \cup {id \in 1..Len(session_owner) : session_owner[id] = client}

\* the owners after a request of client: a session created for it is its own
OwnersAfter(client, d) ==
  [id \in 1..Cardinality(d.chat_sessions) |->
     IF id <= Len(session_owner) THEN session_owner[id] ELSE client]

\* POST /api/chat; the requests of one behaviour arrive within the ttl of
\* the response cache, the clock standing still
HandleChat ==
  /\ handled < MaxHandled
  /\ \E client \in Clients, message \in Messages, sel \in OptionalSelections,
        env \in Environments :
       \E session_id \in SessionChoices(client) :
         LET request == [message |-> message, selected_text |-> sel,
                         session_id |-> session_id, top_k |-> 5]
             r == chat_endpoint_exchange(client, request, db, response_cache, clock, env, Validators)
         IN  /\ exchange' = r.exchange
             /\ db' = r.db
             /\ response_cache' = r.cache
             /\ session_owner' = OwnersAfter(client, r.db)
  /\ handled' = handled + 1
  /\ UNCHANGED <<chunk_vars, index_vars, search_vars, valid_vars, endpoint_vars, loop_vars, time_vars, limiter_vars, cache_vars>>

\* POST /api/selected-text-question
HandleSelectedTextQuestion ==
  /\ handled < MaxHandled
  /\ \E client \in Clients, question \in Messages, sel \in GivenSelections,
        env \in Environments :
       \E session_id \in SessionChoices(client) \ {0} :
         LET request == [message |-> question, selected_text |-> sel,
                         session_id |-> session_id, top_k |-> 0]
             r == selected_text_exchange(client, request, db, response_cache, env, Validators)
         IN  /\ exchange' = r.exchange
             /\ db' = r.db
             /\ response_cache' = r.cache
             /\ session_owner' = OwnersAfter(client, r.db)
  /\ handled' = handled + 1
  /\ UNCHANGED <<chunk_vars, index_vars, search_vars, valid_vars, endpoint_vars, loop_vars, time_vars, limiter_vars, cache_vars>>

NextService ==
  \/ HandleChat
  \/ HandleSelectedTextQuestion

SpecService == InitService /\ [][NextService]_vars

\* ------------------------------------------------------------------------
\* Properties of the service
\* ------------------------------------------------------------------------

\* the verdicts of the validations the handler ran on the answer
VerdictsOf(ex) == ex.verdicts.api_validation \o ex.verdicts.selected_text_validation

\* the generation was called and failed
GenerationFailed(ex) == ex.generated.called /\ ~ex.generated.ok

\* a validation of the generated answer failed
ValidationFailed(ex) == \E i \in 1..Len(VerdictsOf(ex)) : ~VerdictsOf(ex)[i].is_valid

\* C21: whenever the generation fails, or the API-response validation or the
\* selected-text validation of the generated answer fails, the answer text
\* delivered to the user is the fallback statement "This information is not
\* available in the book.".
C21_FallbackOnFailure ==
  (GenerationFailed(exchange) \/ ValidationFailed(exchange)) =>
    /\ exchange.delivered.given
    /\ exchange.delivered.response = FallbackText

\* what chat_endpoint does do: an answer the API-response validation
\* rejects is replaced by the fallback statement
C21_ApiValidationFallback ==
  (/\ exchange.handler = "chat.chat_endpoint"
   /\ exchange.status = 200
   /\ ~exchange.cache_hit
   /\ ~exchange.verdicts.api_validation[1].is_valid) =>
    exchange.delivered.response = FallbackText

\* ------------------------------------------------------------------------
\* The chunking functions executed statement by statement
\* ------------------------------------------------------------------------

\* longest text of a call that is followed statement by statement
MaxLoopTextLen == 3

InitChunkLoop ==
  /\ text \in {t \in Texts : Len(t) <= MaxLoopTextLen}
  /\ max_tokens \in 0..MaxMaxTokens
  /\ overlap_tokens \in 0..MaxOverlap
  /\ ChunkIdle
  /\ hash_seed = 0
  /\ IndexIdle
  /\ SearchIdle
  /\ ValidIdle
  /\ EndpointIdle
  /\ LoopIdle
  /\ clock = 0
  /\ ServiceIdle
  /\ LimiterIdle
  /\ CacheIdle

\* chunk_text_by_tokens up to its while loop (lines 21-28)
EnterChunkTextByTokens ==
  /\ chunk_loop.pc = "idle"
  /\ chunk_loop' =
       IF Strip(text) = <<>>
       THEN [chunk_loop EXCEPT !.fn = "chunk_text_by_tokens", !.pc = "returned"]
       ELSE [chunk_loop EXCEPT !.fn = "chunk_text_by_tokens", !.pc = "while",
                               !.tokens = Encode(text), !.start_idx = 0]
  /\ UNCHANGED <<chunk_vars, index_vars, search_vars, valid_vars, endpoint_vars, time_vars, service_vars, limiter_vars, cache_vars>>

\* one iteration of the while loop (lines 30-49); step is the parity of the
\* number of iterations taken
WhileIteration ==
  /\ chunk_loop.pc = "while"
  /\ chunk_loop.start_idx < Len(chunk_loop.tokens)
  /\ chunk_loop' =
       [chunk_loop EXCEPT
          !.start_idx = Advance(@, max_tokens,
                                IF chunk_loop.fn = "chunk_text_by_sentences"
                                THEN 0 ELSE overlap_tokens),
          !.step = 1 - @]
  /\ UNCHANGED <<chunk_vars, index_vars, search_vars, valid_vars, endpoint_vars, time_vars, service_vars, limiter_vars, cache_vars>>

\* the while condition fails and chunk_text_by_tokens returns (line 51), to
\* the for loop of chunk_text_by_sentences when that called it (line 78)
WhileExit ==
  /\ chunk_loop.pc = "while"
  /\ ~(chunk_loop.start_idx < Len(chunk_loop.tokens))
  /\ chunk_loop' =
       [chunk_loop EXCEPT !.pc = IF chunk_loop.fn = "chunk_text_by_sentences"
                                 THEN "for" ELSE "returned"]
  /\ UNCHANGED <<chunk_vars, index_vars, search_vars, valid_vars, endpoint_vars, time_vars, service_vars, limiter_vars, cache_vars>>

\* chunk_text_by_sentences up to its for loop (lines 57-63)
EnterChunkTextBySentences ==
  /\ chunk_loop.pc = "idle"
  /\ chunk_loop' =
       IF Strip(text) = <<>>
       THEN [chunk_loop EXCEPT !.fn = "chunk_text_by_sentences", !.pc = "returned"]
       ELSE [chunk_loop EXCEPT !.fn = "chunk_text_by_sentences", !.pc = "for",
                               !.sentences = SplitSentences(text),
                               !.current_chunk = <<>>]
  /\ UNCHANGED <<chunk_vars, index_vars, search_vars, valid_vars, endpoint_vars, time_vars, service_vars, limiter_vars, cache_vars>>

\* one iteration of the for loop (lines 65-81), up to the call of
\* chunk_text_by_tokens of line 78 when it is made
ForIteration ==
  /\ chunk_loop.pc = "for"
  /\ chunk_loop.sentences # <<>>
  /\ LET sentence == Head(chunk_loop.sentences)
         current_chunk == chunk_loop.current_chunk
         test_chunk == IF current_chunk # <<>>
                       THEN current_chunk \o <<" ">> \o sentence
                       ELSE sentence
         next == [chunk_loop EXCEPT !.sentences = Tail(@)]
     IN  chunk_loop' =
           IF Len(Encode(test_chunk)) <= max_tokens
           THEN [next EXCEPT !.current_chunk = test_chunk]
           ELSE IF Len(Encode(sentence)) > max_tokens
           THEN (IF Strip(sentence) = <<>>
                 THEN next
                 ELSE [next EXCEPT !.pc = "while", !.tokens = Encode(sentence),
                                   !.start_idx = 0])
           ELSE [next EXCEPT !.current_chunk = sentence]
  /\ UNCHANGED <<chunk_vars, index_vars, search_vars, valid_vars, endpoint_vars, time_vars, service_vars, limiter_vars, cache_vars>>

\* the sentences are used up and chunk_text_by_sentences returns (lines 83-87)
ForExit ==
  /\ chunk_loop.pc = "for"
  /\ chunk_loop.sentences = <<>>
  /\ chunk_loop' = [chunk_loop EXCEPT !.pc = "returned"]
  /\ UNCHANGED <<chunk_vars, index_vars, search_vars, valid_vars, endpoint_vars, time_vars, service_vars, limiter_vars, cache_vars>>

NextChunkLoop ==
  \/ EnterChunkTextByTokens
  \/ WhileIteration
  \/ WhileExit
  \/ EnterChunkTextBySentences
  \/ ForIteration
  \/ ForExit

SpecChunkLoop == InitChunkLoop /\ [][NextChunkLoop]_vars

\* a function that was called runs on: the interpreter executes the next
\* statement of a running function
FairSpecChunkLoop == SpecChunkLoop /\ WF_vars(NextChunkLoop)

\* C22: chunk_text_by_tokens and chunk_text_by_sentences return for every
\* text and every integer max_tokens and overlap_tokens they accept.
C22_ChunkingTerminates == <>(chunk_loop.pc = "returned")

\* with max_tokens of at least 1 both functions return
C22_TerminatesForPositiveMaxTokens ==
  (max_tokens >= 1) => <>(chunk_loop.pc = "returned")

\* position of the first call of that name among the calls, 0 when there
\* is none
CallAt(calls, name) ==
  IF \E i \in 1..Len(calls) : calls[i] = name
  THEN CHOOSE i \in 1..Len(calls) :
         calls[i] = name /\ \A j \in 1..(i - 1) : calls[j] # name
  ELSE 0

\* the groundedness validators: ValidationService.validate_book_based_response
\* and the two validate_selected_text_response
GroundednessCalls ==
  {"validate_book_based_response", "validate_selected_text_response"}

\* the row create_response stored during the exchange
StoredResponses(ex) == {r \in db.responses : r.response_id = ex.response_id}

\* the exchange passed the answer to a groundedness validator after the
\* generation and before the response was stored and cached, and the stored
\* row holds the verdict and the retrieved chunk_ids
ValidatedThenStored(ex) ==
  /\ \E v \in 1..Len(ex.calls) :
       /\ ex.calls[v] \in GroundednessCalls
       /\ CallAt(ex.calls, "llm.generate") # 0
       /\ CallAt(ex.calls, "llm.generate") < v
       /\ v < CallAt(ex.calls, "db.create_response")
       /\ CallAt(ex.calls, "cache.put") # 0 => v < CallAt(ex.calls, "cache.put")
  /\ StoredResponses(ex) # {}
  /\ \A r \in StoredResponses(ex) :
       /\ r.validation_result.selected_text_validation =
            ex.verdicts.selected_text_validation
       /\ r.validation_result.selected_text_validation # <<>>
       /\ r.source_chunks = ex.retrieved

\* C23: for every answered query, with or without selected text, the
\* generated answer is passed to the groundedness validator after the
\* generation and before the response is stored, cached or returned, and
\* the verdict is attached to the stored response record together with the
\* list of the retrieved chunk_ids.
C23_ValidatedBeforeStored ==
  (exchange.status = 200 /\ exchange.generated.ok) => ValidatedThenStored(exchange)

\* what the handlers do do: the answer to a request with a selected text is
\* validated against it between the generation and the storing
C23_SelectedTextValidatedBeforeStored ==
  (/\ exchange.status = 200
   /\ exchange.generated.ok
   /\ exchange.request.selected_text.value # <<>>) => ValidatedThenStored(exchange)

\* ------------------------------------------------------------------------
\* More properties of the endpoints
\* ------------------------------------------------------------------------

\* a selected-text question whose session_id is the UUID of no stored session
UnknownSessionQuestion ==
  /\ ep_name = "selected_text.handle_selected_text_question"
  /\ ep_request.session_id = "unknown"

\* C24: a selected-text question whose session_id identifies no stored
\* session is answered with HTTP 404 "Session not found", and no query
\* record, generation call or response record is produced for it.
C24_UnknownSessionNotFound ==
  UnknownSessionQuestion =>
    /\ ep_status = 404
    /\ ep_calls = <<"db.get_session">>

\* what the handler does do: it answers with an error status and produces
\* no query record, generation call or response record
C24_UnknownSessionProducesNothing ==
  UnknownSessionQuestion =>
    /\ ep_status = 500
    /\ \A i \in 1..Len(ep_calls) :
         ep_calls[i] \notin {"db.create_user_query", "llm.generate", "db.create_response"}

\* ------------------------------------------------------------------------
\* More properties of the service
\* ------------------------------------------------------------------------

\* every response row references a stored query, and every query row a
\* stored session
ReferencesStored(d) ==
  /\ \A r \in d.responses : \E q \in d.user_queries : q.query_id = r.query_id
  /\ \A q \in d.user_queries : q.session_id \in d.chat_sessions

\* within the exchange the session was stored before the query and the
\* query before the response
StoredInOrder(ex) ==
  LET s == CallAt(ex.calls, "db.create_session")
      q == CallAt(ex.calls, "db.create_user_query")
      r == CallAt(ex.calls, "db.create_response")
  IN  /\ r # 0 => (q # 0 /\ q < r)
      /\ q # 0 => (IF s # 0 THEN s < q ELSE ex.session_id \in ex.sessions_before)

\* C25: after any sequence of chat and selected-text requests, including
\* requests that fail part-way, every stored Response references a stored
\* UserQuery and every stored UserQuery a stored ChatSession; within a
\* request the session is stored before the query and the query before the
\* response.
C25_ReferentialIntegrity ==
  /\ ReferencesStored(db)
  /\ StoredInOrder(exchange)

\* a request failed after its query was stored, in a database that holds
\* the response of an earlier request
C25_Witness ==
  /\ exchange.status = 500
  /\ exchange.query_id # 0
  /\ db.responses # {}
  /\ \E q \in db.user_queries : \A r \in db.responses : r.query_id # q.query_id

\* the response of the exchange names the session this request's query was
\* recorded under: the request's own when it was stored, a session created
\* for this request otherwise, and in both cases one of this client
NamesOwnSession(ex) ==
  LET sid == ex.delivered.session_id
  IN  /\ \E q \in db.user_queries :
           q.query_id = ex.query_id /\ q.session_id = sid
      /\ IF ex.request.session_id \in ex.sessions_before
         THEN sid = ex.request.session_id
         ELSE sid \in db.chat_sessions \ ex.sessions_before
      /\ session_owner[sid] = ex.client

\* C26: for every successful chat request, the session_id in the response
\* identifies the session under which this request's query was recorded,
\* the request's own session when it exists and otherwise one newly created
\* for this request, never a session of an earlier request of another
\* client, also when the answer is served from the response cache.
C26_ResponseSessionIsOwn ==
  (exchange.handler = "chat.chat_endpoint" /\ exchange.status = 200) =>
    NamesOwnSession(exchange)

\* what chat_endpoint does do: a response that is not served from the cache
\* names the session of this request
C26_FreshResponseSessionIsOwn ==
  (/\ exchange.handler = "chat.chat_endpoint"
   /\ exchange.status = 200
   /\ ~exchange.cache_hit) => NamesOwnSession(exchange)

\* ------------------------------------------------------------------------
\* RateLimiter (middleware/rate_limiter.py)
\* ------------------------------------------------------------------------

\* largest rate_limit_window, in ticks of the clock
MaxWindow == 2

\* largest rate_limit_requests
MaxRequests == 2

\* latest time on the clock
MaxClock == 3

\* most is_allowed calls in one behaviour
MaxCalls == 4

\* the deque after popleft() while its first timestamp is at or before
\* window_start
PruneInclusive(deque, window_start) ==
  LET kept == {i \in 1..Len(deque) : deque[i] > window_start}
  IN  IF kept = {} THEN <<>>
      ELSE SubSeq(deque, CHOOSE i \in kept : \A j \in kept : i <= j, Len(deque))

\* the deque after the loop of lines 22-23: popleft() while the first
\* timestamp is before window_start
Prune(deque, window_start) ==
  LET kept == {i \in 1..Len(deque) : ~(deque[i] < window_start)}
  IN  IF kept = {} THEN <<>>
      ELSE SubSeq(deque, CHOOSE i \in kept : \A j \in kept : i <= j, Len(deque))

\* RateLimiter.is_allowed (lines 14-30) at time now: what it returns and
\* the limiter it leaves
RateLimiter_is_allowed(rl, identifier, now) ==
  LET window_start == now - rl.window_size
      kept == Prune(rl.requests[identifier], window_start)
  IN  IF Len(kept) < rl.max_requests
      THEN [limiter |-> [rl EXCEPT !.requests[identifier] = Append(kept, now)],
            allowed |-> TRUE]
      ELSE [limiter |-> [rl EXCEPT !.requests[identifier] = kept],
            allowed |-> FALSE]

\* a limiter built from the configured window and limit (lines 8-12)
InitLimiter ==
  /\ text = <<>>
  /\ max_tokens = 1
  /\ overlap_tokens = 0
  /\ ChunkIdle
  /\ hash_seed = 0
  /\ IndexIdle
  /\ SearchIdle
  /\ ValidIdle
  /\ EndpointIdle
  /\ LoopIdle
  /\ clock = 0
  /\ ServiceIdle
  /\ \E w \in 0..MaxWindow, n \in 0..MaxRequests :
       rate_limiter = [requests |-> [id \in Identifiers |-> <<>>],
                       window_size |-> w, max_requests |-> n]
  /\ allowed_log = [id \in Identifiers |-> <<>>]
  /\ limiter_call = [identifier |-> "", now |-> 0, allowed |-> FALSE, calls |-> 0]
  /\ CacheIdle

\* rate_limit_middleware (lines 35-57) on a request, rate limiting enabled
RateLimitMiddleware ==
  /\ limiter_call.calls < MaxCalls
  /\ \E host \in Hosts, user_id \in UserIds :
       LET client_id == ClientId(host, user_id)
           r == RateLimiter_is_allowed(rate_limiter, client_id, clock)
       IN  /\ rate_limiter' = r.limiter
           /\ allowed_log' = IF r.allowed
                             THEN [allowed_log EXCEPT ![client_id] = Append(@, clock)]
                             ELSE allowed_log
           /\ limiter_call' = [identifier |-> client_id, now |-> clock,
                               allowed |-> r.allowed,
                               calls |-> limiter_call.calls + 1]
  /\ UNCHANGED <<chunk_vars, index_vars, search_vars, valid_vars, endpoint_vars, loop_vars, time_vars, service_vars, cache_vars>>

\* time passes
Tick ==
  /\ clock < MaxClock
  /\ clock' = clock + 1
  /\ UNCHANGED <<chunk_vars, index_vars, search_vars, valid_vars, endpoint_vars, loop_vars, service_vars, limiter_vars, cache_vars>>

NextLimiter ==
  \/ RateLimitMiddleware
  \/ Tick

SpecLimiter == InitLimiter /\ [][NextLimiter]_vars

\* ------------------------------------------------------------------------
\* Properties of the rate limiter
\* ------------------------------------------------------------------------

\* the number of allowed calls of an identifier with a timestamp from a to
\* a + window_size
AllowedWithin(log, a, window_size) ==
  Cardinality({i \in 1..Len(log) : a <= log[i] /\ log[i] <= a + window_size})

\* no window of window_size holds more than max_requests allowed calls of
\* one identifier
WindowBound(rl, log) ==
  \A id \in Identifiers : \A a \in 0..MaxClock :
    AllowedWithin(log[id], a, rl.window_size) <= rl.max_requests

\* s is what is left of t after dropping some of its first elements
IsSuffix(s, t) ==
  /\ Len(s) <= Len(t)
  /\ s = SubSeq(t, Len(t) - Len(s) + 1, Len(t))

\* C27: after any sequence of is_allowed calls, for each identifier the
\* number of allowed requests whose timestamps fall within any window of
\* window_size seconds is at most max_requests; a denied call records
\* nothing; and a call for one identifier changes neither the record nor
\* the outcome of any other identifier.
C27_RateLimit ==
  [][ /\ WindowBound(rate_limiter', allowed_log')
      /\ (limiter_call'.calls # limiter_call.calls /\ ~limiter_call'.allowed) =>
           \A id \in Identifiers :
             IsSuffix(rate_limiter'.requests[id], rate_limiter.requests[id])
      /\ \A id \in Identifiers :
           (limiter_call'.calls # limiter_call.calls /\ id # limiter_call'.identifier) =>
             /\ rate_limiter'.requests[id] = rate_limiter.requests[id]
             /\ \A t \in clock..MaxClock :
                  RateLimiter_is_allowed(rate_limiter', id, t).allowed
                    = RateLimiter_is_allowed(rate_limiter, id, t).allowed
    ]_vars

\* an identifier was denied a call after it was allowed more than
\* max_requests calls in all, the window having moved on in between, while
\* the other identifier was allowed a call too
C27_Witness ==
  /\ rate_limiter.max_requests >= 1
  /\ ~limiter_call.allowed
  /\ limiter_call.calls > 0
  /\ Len(allowed_log[limiter_call.identifier]) > rate_limiter.max_requests
  /\ \E id \in Identifiers : id # limiter_call.identifier /\ allowed_log[id] # <<>>

\* ------------------------------------------------------------------------
\* An LRUCache called on its own
\* ------------------------------------------------------------------------

\* largest max_size of the cache
MaxCacheSize == 2

Keys == {"k1", "k2", "k3"}

Values == {"v1", "v2"}

\* LRUCache(max_size, ttl) (lines 10-13)
InitCache ==
  /\ text = <<>>
  /\ max_tokens = 1
  /\ overlap_tokens = 0
  /\ ChunkIdle
  /\ hash_seed = 0
  /\ IndexIdle
  /\ SearchIdle
  /\ ValidIdle
  /\ EndpointIdle
  /\ LoopIdle
  /\ clock = 0
  /\ ServiceIdle
  /\ LimiterIdle
  /\ \E n \in 1..MaxCacheSize, t \in 1..MaxTtl :
       lru = [max_size |-> n, ttl |-> t, cache |-> <<>>]
  /\ lru_call = [op |-> "none", key |-> "", hit |-> FALSE, turn |-> 0]

\* the record of a call; turn changes with every call
Called(op, key, hit) ==
  [op |-> op, key |-> key, hit |-> hit, turn |-> 1 - lru_call.turn]

CacheGet ==
  /\ \E key \in Keys :
       LET r == LRUCache_get(lru, key, clock)
       IN  /\ lru' = r.cache
           /\ lru_call' = Called("get", key, r.hit)
  /\ UNCHANGED <<chunk_vars, index_vars, search_vars, valid_vars, endpoint_vars, loop_vars, time_vars, service_vars, limiter_vars>>

CachePut ==
  /\ \E key \in Keys, value \in Values :
       /\ lru' = LRUCache_put(lru, key, value, clock)
       /\ lru_call' = Called("put", key, FALSE)
  /\ UNCHANGED <<chunk_vars, index_vars, search_vars, valid_vars, endpoint_vars, loop_vars, time_vars, service_vars, limiter_vars>>

CacheDelete ==
  /\ \E key \in Keys :
       /\ lru' = LRUCache_delete(lru, key)
       /\ lru_call' = Called("delete", key, FALSE)
  /\ UNCHANGED <<chunk_vars, index_vars, search_vars, valid_vars, endpoint_vars, loop_vars, time_vars, service_vars, limiter_vars>>

CacheClear ==
  /\ lru' = LRUCache_clear(lru)
  /\ lru_call' = Called("clear", "", FALSE)
  /\ UNCHANGED <<chunk_vars, index_vars, search_vars, valid_vars, endpoint_vars, loop_vars, time_vars, service_vars, limiter_vars>>

NextCache ==
  \/ CacheGet
  \/ CachePut
  \/ CacheDelete
  \/ CacheClear
  \/ Tick

SpecCache == InitCache /\ [][NextCache]_vars

\* ------------------------------------------------------------------------
\* Properties of the cache
\* ------------------------------------------------------------------------

\* the keys of the cache
KeysOf(c) == {c.cache[i].key : i \in 1..Len(c.cache)}

\* the step is a call of put
PutStep == lru_call'.turn # lru_call.turn /\ lru_call'.op = "put"

\* C28: put removes an existing entry only when it inserts a key that is
\* not cached into a cache holding max_size entries, and the entry removed
\* is then the least recently used one; updating the value of a key that is
\* already cached evicts nothing.
C28_PutEvictsOnlyOnInsert ==
  [][ PutStep =>
        LET removed == KeysOf(lru) \ KeysOf(lru')
        IN  IF lru_call'.key \notin KeysOf(lru) /\ Len(lru.cache) = lru.max_size
            THEN removed = {lru.cache[1].key}
            ELSE removed = {}
    ]_vars

\* what put does do: it never leaves more than max_size entries, and a put
\* of a key that is not cached removes the least recently used entry
\* exactly when the cache is full
C28_InsertEvictsLeastRecentlyUsed ==
  [][ (PutStep /\ lru_call'.key \notin KeysOf(lru)) =>
        /\ Len(lru'.cache) <= lru.max_size
        /\ KeysOf(lru) \ KeysOf(lru') =
             IF Len(lru.cache) = lru.max_size THEN {lru.cache[1].key} ELSE {}
    ]_vars

\* ------------------------------------------------------------------------
\* Sentences and the chunks of sentence mode
\* ------------------------------------------------------------------------

\* the numbers of the chunks of the run that hold the text of sentence i
ChunksHolding(run, i) == {k \in 1..Len(run.contributed) : i \in run.contributed[k]}

\* sentence i was emitted once: in one chunk flushed from accumulated
\* sentences, or else in the chunks of its own token split
EmittedOnce(run, i) ==
  LET flushed == {k \in ChunksHolding(run, i) : run.origin[k] = "sentences"}
      split == {k \in ChunksHolding(run, i) : run.origin[k] = "token_split"}
  IN  \/ Cardinality(flushed) = 1 /\ split = {}
      \/ flushed = {} /\ split # {}

\* the chunks follow the order of the sentences they hold
InInputOrder(run) ==
  \A j \in 1..Len(run.contributed), k \in 1..Len(run.contributed) :
    j < k => \A a \in run.contributed[j], b \in run.contributed[k] : a <= b

\* the sentences of the text that are not blank
TextSentences(t) == {i \in 1..Len(SplitSentences(t)) : Strip(SplitSentences(t)[i]) # <<>>}

\* C29: in sentence mode every sentence of the input contributes its text
\* to exactly one emitted chunk, in input order: a chunk that was flushed is
\* never emitted again or extended with later sentences, also when the
\* flush is followed by the token split of an over-length sentence.
C29_SentenceInOneChunk ==
  chunk_call = "chunk_text_by_sentences" =>
    LET run == SentenceRun(text, max_tokens)
    IN  /\ run.chunks = chunks
        /\ \A i \in TextSentences(text) : EmittedOnce(run, i)
        /\ InInputOrder(run)

\* what does hold: no sentence is lost, and when no sentence is over-length
\* every sentence is in exactly one chunk, the chunks in input order
C29_NoSentenceLost ==
  chunk_call = "chunk_text_by_sentences" =>
    LET run == SentenceRun(text, max_tokens)
    IN  /\ run.chunks = chunks
        /\ \A i \in TextSentences(text) : ChunksHolding(run, i) # {}
        /\ (\A k \in 1..Len(origin) : origin[k] = "sentences") =>
             /\ \A i \in TextSentences(text) : EmittedOnce(run, i)
             /\ InInputOrder(run)

\* ------------------------------------------------------------------------
\* Validity and the list of issues
\* ------------------------------------------------------------------------

\* C30: in every verdict a validation operation returns, is_valid is false
\* exactly when the list of errors or issues is not empty: no verdict is
\* valid while it reports an issue, and none is invalid with an empty list.
C30_InvalidIffIssues ==
  (v_op # "none" /\ v_status = "returned") =>
    (verdict.is_valid <=> ProblemsOf(verdict) = <<>>)

\* what does hold: a verdict with an empty list is never invalid
C30_NoIssueThenValid ==
  (v_op # "none" /\ v_status = "returned") =>
    (ProblemsOf(verdict) = <<>> => verdict.is_valid)

====
